---- MODULE Spec2Model ----
(***************************************************************************)
(* Shopping-cart service on a Redis hash store: the three Lua scripts of   *)
(* app/atomic_scripts.py, the CartService methods that invoke them, and    *)
(* the retrying transport of app/redis_client.py.                          *)
(*                                                                         *)
(* The cache server owns the carts.  Request handlers (Clients) run        *)
(* concurrently; every cache command, a script included, is one atomic     *)
(* step of the server, and a handler's local computation between two       *)
(* commands belongs to the step of the command that precedes it.           *)
(***************************************************************************)
EXTENDS Integers, FiniteSets, Sequences, TLC

\* ------------------------------------------------------------------------
\* Configuration (app/config.py).  The two cart limits come from the
\* environment; the model runs a small configuration of them.
\* ------------------------------------------------------------------------
MAX_ITEMS_PER_CART == 2

MAX_QUANTITY_PER_ITEM == 2

CART_TTL_SECONDS == 604800

GUEST_CART_TTL_SECONDS == 86400

\* _retry_with_backoff(func, max_retries = 3, ...)
max_retries == 3

\* _retry_with_backoff's initial_backoff and max_backoff, in milliseconds
initial_backoff == 100

max_backoff == 2000

\* How many transport failures the network injects in one behaviour, at most.
MaxFaults == 3

\* ------------------------------------------------------------------------
\* The universe of one behaviour
\* ------------------------------------------------------------------------
\* Two request handlers run side by side, each serving one request.
Clients == {1, 2}

\* main.py: is_guest = user_id is None.  Client 1 is the anonymous session.
IsGuest(i) == i = 1

Carts == {"g", "u", "w"}

Products == {"A", "B", "C"}

\* Python's None, for "no variant given"
None == "None"

\* What a request offers for a product: str(price), as the amount in cents,
\* and the variant.
Offers == {[price |-> 1000, variant |-> None], [price |-> 1200, variant |-> "red"]}

\* TTL of a key as the TTL command reports it: -2 no such key, -1 no expiry
NoKey == -2

NoExpiry == -1

\* ------------------------------------------------------------------------
\* The cache: one hash per cart key and one expiry per key.
\* A database value is [store |-> [Carts -> hash], ttl |-> [Carts -> Int]];
\* a hash is a function from the product ids it holds to their payloads.
\* The server drops a hash when its last field goes.
\* ------------------------------------------------------------------------
VARIABLES
    store,     \* [Carts -> hash]: the fields of each cart key
    ttl,       \* [Carts -> Int]: the expiry of each cart key
    pc,        \* [Clients -> label]: where each handler stands
    call,      \* [Clients -> record]: the request and the handler's locals
    attempt,   \* [Clients -> Nat]: _retry_with_backoff's loop variable
    res,       \* [Clients -> record]: what the handler returned or raised
    exec,      \* [Clients -> Seq]: the Lua table each server run of the request's script returned
    faults,    \* transport failures the network may still inject
    scope,     \* the carts and products the requests of this behaviour name
    store0,    \* the cache contents the behaviour started from
    retry      \* one call of _retry_with_backoff, statement by statement

vars == <<store, ttl, pc, call, attempt, res, exec, faults, scope, store0, retry>>

EmptyHash == << >>

DB == [store |-> store, ttl |-> ttl]

\* f or '' (Python) / variant or '' (Lua)
OrEmpty(v) == IF v = None THEN "" ELSE v

\* cjson.encode(item_data) of the three fields the scripts write
cjson_encode(quantity, price_snapshot, variant) ==
    [quantity |-> quantity, price_snapshot |-> price_snapshot, variant |-> variant]

\* tonumber(data['quantity']) or 0
QuantityOf(item) == IF "quantity" \in DOMAIN item THEN item.quantity ELSE 0

EXISTS(D, key) == IF D.store[key] # EmptyHash THEN 1 ELSE 0

HLEN(D, key) == Cardinality(DOMAIN D.store[key])

HasField(D, key, field) == field \in DOMAIN D.store[key]

HGET(D, key, field) == D.store[key][field]

HGETALL(D, key) == D.store[key]

HSET(D, key, field, value) ==
    [store |-> [D.store EXCEPT ![key] = (field :> value) @@ @],
     ttl   |-> [D.ttl EXCEPT ![key] = IF D.store[key] = EmptyHash THEN NoExpiry ELSE @]]

EXPIRE(D, key, seconds) ==
    IF D.store[key] = EmptyHash THEN D
    ELSE [D EXCEPT !.ttl[key] = seconds]

DEL(D, key) ==
    [store |-> [D.store EXCEPT ![key] = EmptyHash],
     ttl   |-> [D.ttl EXCEPT ![key] = NoKey]]

\* Faulty variant of the field deletion: the key stays when its last field goes.
HDEL_KeepsEmptyKey(D, key, field) ==
    IF ~HasField(D, key, field) THEN D
    ELSE [D EXCEPT !.store[key] = [f \in (DOMAIN D.store[key]) \ {field} |-> D.store[key][f]]]

HDEL(D, key, field) ==
    LET rest == [f \in (DOMAIN D.store[key]) \ {field} |-> D.store[key][f]]
    IN  IF ~HasField(D, key, field) THEN D
        ELSE IF rest = EmptyHash THEN DEL(D, key)
        ELSE [D EXCEPT !.store[key] = rest]

\* ------------------------------------------------------------------------
\* The Lua scripts (app/atomic_scripts.py).  Each is a function of the
\* database and its arguments giving the database afterwards and the Lua
\* table it returns: [db |-> ..., ret |-> ...].
\* ------------------------------------------------------------------------
\* Faulty variant of the add script: the item-count limit is applied to
\* products the cart already holds as well.
ADD_ITEM_SCRIPT_CountsEveryAdd(D, cart_key, product_id, quantity, price_snapshot, variant, max_items, max_quantity, seconds) ==
    LET item_count   == HLEN(D, cart_key)
        existing_qty == IF HasField(D, cart_key, product_id)
                        THEN QuantityOf(HGET(D, cart_key, product_id))
                        ELSE 0
        new_qty      == existing_qty + quantity
        item_data    == cjson_encode(new_qty, price_snapshot, variant)
    IN  IF new_qty > max_quantity
        THEN [db  |-> D,
              ret |-> [err |-> "MAX_QUANTITY_EXCEEDED", max |-> max_quantity,
                       requested |-> new_qty]]
        ELSE IF item_count >= max_items
        THEN [db  |-> D,
              ret |-> [err |-> "MAX_ITEMS_EXCEEDED", max |-> max_items,
                       current |-> item_count]]
        ELSE [db  |-> EXPIRE(HSET(D, cart_key, product_id, item_data), cart_key, seconds),
              ret |-> [ok |-> TRUE, quantity |-> new_qty, is_new |-> (existing_qty = 0)]]

\* Faulty variant of the add script: the quantity limit is compared with the
\* requested delta, not with the accumulated quantity.
ADD_ITEM_SCRIPT_ChecksDelta(D, cart_key, product_id, quantity, price_snapshot, variant, max_items, max_quantity, seconds) ==
    LET item_count   == HLEN(D, cart_key)
        existing_qty == IF HasField(D, cart_key, product_id)
                        THEN QuantityOf(HGET(D, cart_key, product_id))
                        ELSE 0
        new_qty      == existing_qty + quantity
        item_data    == cjson_encode(new_qty, price_snapshot, variant)
    IN  IF quantity > max_quantity
        THEN [db  |-> D,
              ret |-> [err |-> "MAX_QUANTITY_EXCEEDED", max |-> max_quantity,
                       requested |-> new_qty]]
        ELSE IF existing_qty = 0 /\ item_count >= max_items
        THEN [db  |-> D,
              ret |-> [err |-> "MAX_ITEMS_EXCEEDED", max |-> max_items,
                       current |-> item_count]]
        ELSE [db  |-> EXPIRE(HSET(D, cart_key, product_id, item_data), cart_key, seconds),
              ret |-> [ok |-> TRUE, quantity |-> new_qty, is_new |-> (existing_qty = 0)]]

\* Faulty variant of the add script: the item count is one read before the
\* script ran, not the HLEN taken inside it.
ADD_ITEM_SCRIPT_StaleCount(D, cart_key, product_id, quantity, price_snapshot, variant, max_items, max_quantity, seconds) ==
    LET item_count   == Cardinality(DOMAIN store0[cart_key])
        existing_qty == IF HasField(D, cart_key, product_id)
                        THEN QuantityOf(HGET(D, cart_key, product_id))
                        ELSE 0
        new_qty      == existing_qty + quantity
        item_data    == cjson_encode(new_qty, price_snapshot, variant)
    IN  IF new_qty > max_quantity
        THEN [db  |-> D,
              ret |-> [err |-> "MAX_QUANTITY_EXCEEDED", max |-> max_quantity,
                       requested |-> new_qty]]
        ELSE IF existing_qty = 0 /\ item_count >= max_items
        THEN [db  |-> D,
              ret |-> [err |-> "MAX_ITEMS_EXCEEDED", max |-> max_items,
                       current |-> item_count]]
        ELSE [db  |-> EXPIRE(HSET(D, cart_key, product_id, item_data), cart_key, seconds),
              ret |-> [ok |-> TRUE, quantity |-> new_qty, is_new |-> (existing_qty = 0)]]

\* Faulty variant of the add script: a product the cart already holds keeps
\* the price_snapshot and variant it was first stored with.
ADD_ITEM_SCRIPT_KeepsFirstPrice(D, cart_key, product_id, quantity, price_snapshot, variant, max_items, max_quantity, seconds) ==
    LET item_count   == HLEN(D, cart_key)
        held         == HasField(D, cart_key, product_id)
        existing_qty == IF held THEN QuantityOf(HGET(D, cart_key, product_id)) ELSE 0
        new_qty      == existing_qty + quantity
        item_data    == IF held
                        THEN cjson_encode(new_qty,
                                          HGET(D, cart_key, product_id).price_snapshot,
                                          HGET(D, cart_key, product_id).variant)
                        ELSE cjson_encode(new_qty, price_snapshot, variant)
    IN  IF new_qty > max_quantity
        THEN [db  |-> D,
              ret |-> [err |-> "MAX_QUANTITY_EXCEEDED", max |-> max_quantity,
                       requested |-> new_qty]]
        ELSE IF existing_qty = 0 /\ item_count >= max_items
        THEN [db  |-> D,
              ret |-> [err |-> "MAX_ITEMS_EXCEEDED", max |-> max_items,
                       current |-> item_count]]
        ELSE [db  |-> EXPIRE(HSET(D, cart_key, product_id, item_data), cart_key, seconds),
              ret |-> [ok |-> TRUE, quantity |-> new_qty, is_new |-> (existing_qty = 0)]]

\* Faulty variant of the add script: the item-count limit is checked before
\* the per-item quantity limit.
ADD_ITEM_SCRIPT_ItemsFirst(D, cart_key, product_id, quantity, price_snapshot, variant, max_items, max_quantity, seconds) ==
    LET item_count   == HLEN(D, cart_key)
        existing_qty == IF HasField(D, cart_key, product_id)
                        THEN QuantityOf(HGET(D, cart_key, product_id))
                        ELSE 0
        new_qty      == existing_qty + quantity
        item_data    == cjson_encode(new_qty, price_snapshot, variant)
    IN  IF existing_qty = 0 /\ item_count >= max_items
        THEN [db  |-> D,
              ret |-> [err |-> "MAX_ITEMS_EXCEEDED", max |-> max_items,
                       current |-> item_count]]
        ELSE IF new_qty > max_quantity
        THEN [db  |-> D,
              ret |-> [err |-> "MAX_QUANTITY_EXCEEDED", max |-> max_quantity,
                       requested |-> new_qty]]
        ELSE [db  |-> EXPIRE(HSET(D, cart_key, product_id, item_data), cart_key, seconds),
              ret |-> [ok |-> TRUE, quantity |-> new_qty, is_new |-> (existing_qty = 0)]]

ADD_ITEM_SCRIPT(D, cart_key, product_id, quantity, price_snapshot, variant, max_items, max_quantity, seconds) ==
    LET item_count   == HLEN(D, cart_key)
        existing_qty == IF HasField(D, cart_key, product_id)
                        THEN QuantityOf(HGET(D, cart_key, product_id))
                        ELSE 0
        new_qty      == existing_qty + quantity
        item_data    == cjson_encode(new_qty, price_snapshot, variant)
    IN  IF new_qty > max_quantity
        THEN [db  |-> D,
              ret |-> [err |-> "MAX_QUANTITY_EXCEEDED", max |-> max_quantity,
                       requested |-> new_qty]]
        ELSE IF existing_qty = 0 /\ item_count >= max_items
        THEN [db  |-> D,
              ret |-> [err |-> "MAX_ITEMS_EXCEEDED", max |-> max_items,
                       current |-> item_count]]
        ELSE [db  |-> EXPIRE(HSET(D, cart_key, product_id, item_data), cart_key, seconds),
              ret |-> [ok |-> TRUE, quantity |-> new_qty, is_new |-> (existing_qty = 0)]]

\* Faulty variant of the update script: no removal branch, quantity 0 is
\* written like any other quantity.
UPDATE_QUANTITY_SCRIPT_KeepsZero(D, cart_key, product_id, quantity, max_quantity, seconds) ==
    IF ~HasField(D, cart_key, product_id)
    THEN [db |-> D, ret |-> [err |-> "PRODUCT_NOT_FOUND"]]
    ELSE IF quantity < 0
    THEN [db |-> D, ret |-> [err |-> "INVALID_QUANTITY", quantity |-> quantity]]
    ELSE IF quantity > max_quantity
    THEN [db  |-> D,
          ret |-> [err |-> "MAX_QUANTITY_EXCEEDED", max |-> max_quantity,
                   requested |-> quantity]]
    ELSE LET existing_data == HGET(D, cart_key, product_id)
             item_data     == cjson_encode(quantity, existing_data.price_snapshot,
                                           existing_data.variant)
         IN  [db  |-> EXPIRE(HSET(D, cart_key, product_id, item_data),
                             cart_key, seconds),
              ret |-> [ok |-> TRUE, quantity |-> quantity, removed |-> FALSE]]

\* Faulty variant of the update script: the requested quantity is added to the
\* stored one.
UPDATE_QUANTITY_SCRIPT_Accumulates(D, cart_key, product_id, quantity, max_quantity, seconds) ==
    IF ~HasField(D, cart_key, product_id)
    THEN [db |-> D, ret |-> [err |-> "PRODUCT_NOT_FOUND"]]
    ELSE IF quantity < 0
    THEN [db |-> D, ret |-> [err |-> "INVALID_QUANTITY", quantity |-> quantity]]
    ELSE IF quantity > max_quantity
    THEN [db  |-> D,
          ret |-> [err |-> "MAX_QUANTITY_EXCEEDED", max |-> max_quantity,
                   requested |-> quantity]]
    ELSE LET existing_data == HGET(D, cart_key, product_id)
             removed       == HDEL(D, cart_key, product_id)
             item_data     == cjson_encode(QuantityOf(existing_data) + quantity,
                                           existing_data.price_snapshot,
                                           existing_data.variant)
         IN  IF quantity = 0
             THEN [db  |-> IF HLEN(removed, cart_key) > 0
                           THEN EXPIRE(removed, cart_key, seconds)
                           ELSE DEL(removed, cart_key),
                   ret |-> [ok |-> TRUE, quantity |-> 0, removed |-> TRUE]]
             ELSE [db  |-> EXPIRE(HSET(D, cart_key, product_id, item_data),
                                  cart_key, seconds),
                   ret |-> [ok |-> TRUE, quantity |-> quantity, removed |-> FALSE]]

UPDATE_QUANTITY_SCRIPT(D, cart_key, product_id, quantity, max_quantity, seconds) ==
    IF ~HasField(D, cart_key, product_id)
    THEN [db |-> D, ret |-> [err |-> "PRODUCT_NOT_FOUND"]]
    ELSE IF quantity < 0
    THEN [db |-> D, ret |-> [err |-> "INVALID_QUANTITY", quantity |-> quantity]]
    ELSE IF quantity > max_quantity
    THEN [db  |-> D,
          ret |-> [err |-> "MAX_QUANTITY_EXCEEDED", max |-> max_quantity,
                   requested |-> quantity]]
    ELSE LET existing_data == HGET(D, cart_key, product_id)
             removed       == HDEL(D, cart_key, product_id)
             item_data     == cjson_encode(quantity, existing_data.price_snapshot,
                                           existing_data.variant)
         IN  IF quantity = 0
             THEN [db  |-> IF HLEN(removed, cart_key) > 0
                           THEN EXPIRE(removed, cart_key, seconds)
                           ELSE DEL(removed, cart_key),
                   ret |-> [ok |-> TRUE, quantity |-> 0, removed |-> TRUE]]
             ELSE [db  |-> EXPIRE(HSET(D, cart_key, product_id, item_data),
                                  cart_key, seconds),
                   ret |-> [ok |-> TRUE, quantity |-> quantity, removed |-> FALSE]]

\* Faulty variant of the merge loop body: a summed entry keeps the target's
\* price_snapshot and variant.
MergeField_KeepsTargetPrice(L, target_key, conflict_resolution, product_id, source_data, target_map) ==
    IF product_id \in DOMAIN target_map
    THEN [db |-> IF conflict_resolution = "sum"
                 THEN HSET(L.db, target_key, product_id,
                           cjson_encode(QuantityOf(source_data)
                                          + QuantityOf(target_map[product_id]),
                                        target_map[product_id].price_snapshot,
                                        target_map[product_id].variant))
                 ELSE HSET(L.db, target_key, product_id, source_data),
          merged_count   |-> L.merged_count + 1,
          conflict_count |-> L.conflict_count + 1]
    ELSE [db |-> HSET(L.db, target_key, product_id, source_data),
          merged_count   |-> L.merged_count + 1,
          conflict_count |-> L.conflict_count]

\* Faulty variant of the merge loop body: outside the sum policy a product of
\* both carts keeps the target's entry.
MergeField_KeepsTargetEntry(L, target_key, conflict_resolution, product_id, source_data, target_map) ==
    IF product_id \in DOMAIN target_map
    THEN [db |-> IF conflict_resolution = "sum"
                 THEN HSET(L.db, target_key, product_id,
                           cjson_encode(QuantityOf(source_data)
                                          + QuantityOf(target_map[product_id]),
                                        source_data.price_snapshot,
                                        source_data.variant))
                 ELSE L.db,
          merged_count   |-> L.merged_count + 1,
          conflict_count |-> L.conflict_count + 1]
    ELSE [db |-> HSET(L.db, target_key, product_id, source_data),
          merged_count   |-> L.merged_count + 1,
          conflict_count |-> L.conflict_count]

\* Faulty variant of the merge loop body: under 'sum' a product of both carts
\* gets the larger of the two quantities.
MergeField_TakesLarger(L, target_key, conflict_resolution, product_id, source_data, target_map) ==
    IF product_id \in DOMAIN target_map
    THEN [db |-> IF conflict_resolution = "sum"
                 THEN HSET(L.db, target_key, product_id,
                           cjson_encode(IF QuantityOf(source_data)
                                             > QuantityOf(target_map[product_id])
                                        THEN QuantityOf(source_data)
                                        ELSE QuantityOf(target_map[product_id]),
                                        source_data.price_snapshot,
                                        source_data.variant))
                 ELSE HSET(L.db, target_key, product_id, source_data),
          merged_count   |-> L.merged_count + 1,
          conflict_count |-> L.conflict_count + 1]
    ELSE [db |-> HSET(L.db, target_key, product_id, source_data),
          merged_count   |-> L.merged_count + 1,
          conflict_count |-> L.conflict_count]

\* One pass of the merge loop, for one source field: the write into the
\* target and the two counters.  L is [db, merged_count, conflict_count].
MergeField(L, target_key, conflict_resolution, product_id, source_data, target_map) ==
    IF product_id \in DOMAIN target_map
    THEN [db |-> IF conflict_resolution = "sum"
                 THEN HSET(L.db, target_key, product_id,
                           cjson_encode(QuantityOf(source_data)
                                          + QuantityOf(target_map[product_id]),
                                        source_data.price_snapshot,
                                        source_data.variant))
                 ELSE HSET(L.db, target_key, product_id, source_data),
          merged_count   |-> L.merged_count + 1,
          conflict_count |-> L.conflict_count + 1]
    ELSE [db |-> HSET(L.db, target_key, product_id, source_data),
          merged_count   |-> L.merged_count + 1,
          conflict_count |-> L.conflict_count]

\* The merge loop over the source fields still to do, in the order the hash
\* yields them; source_items and target_map are the snapshots the script took
\* before the loop.
RECURSIVE MergeLoop(_, _, _, _, _, _)
MergeLoop(L, target_key, conflict_resolution, todo, source_items, target_map) ==
    IF todo = {} THEN L
    ELSE LET product_id == CHOOSE p \in todo : TRUE
         IN  MergeLoop(MergeField(L, target_key, conflict_resolution, product_id,
                                  source_items[product_id], target_map),
                       target_key, conflict_resolution, todo \ {product_id},
                       source_items, target_map)

\* Faulty variant of the merge script: the source key is not deleted.
MERGE_CART_SCRIPT_KeepsSource(D, source_key, target_key, conflict_resolution, seconds) ==
    LET source_items == HGETALL(D, source_key)
        target_map   == HGETALL(D, target_key)
        merged       == MergeLoop([db |-> D, merged_count |-> 0, conflict_count |-> 0],
                                  target_key, conflict_resolution,
                                  DOMAIN source_items, source_items, target_map)
        refreshed    == IF EXISTS(merged.db, target_key) = 1
                        THEN EXPIRE(merged.db, target_key, seconds)
                        ELSE merged.db
    IN  IF source_items = EmptyHash
        THEN [db  |-> D,
              ret |-> [ok |-> TRUE, merged |-> 0, message |-> "Source cart is empty"]]
        ELSE [db  |-> refreshed,
              ret |-> [ok |-> TRUE, merged |-> merged.merged_count,
                       conflicts |-> merged.conflict_count,
                       resolution |-> conflict_resolution]]

MERGE_CART_SCRIPT(D, source_key, target_key, conflict_resolution, seconds) ==
    LET source_items == HGETALL(D, source_key)
        target_map   == HGETALL(D, target_key)
        merged       == MergeLoop([db |-> D, merged_count |-> 0, conflict_count |-> 0],
                                  target_key, conflict_resolution,
                                  DOMAIN source_items, source_items, target_map)
        refreshed    == IF EXISTS(merged.db, target_key) = 1
                        THEN EXPIRE(merged.db, target_key, seconds)
                        ELSE merged.db
    IN  IF source_items = EmptyHash
        THEN [db  |-> D,
              ret |-> [ok |-> TRUE, merged |-> 0, message |-> "Source cart is empty"]]
        ELSE [db  |-> DEL(refreshed, source_key),
              ret |-> [ok |-> TRUE, merged |-> merged.merged_count,
                       conflicts |-> merged.conflict_count,
                       resolution |-> conflict_resolution]]

\* What client.eval hands back for the Lua table a script returns.  The server
\* turns a table with a string err field into an error reply, which the client
\* library raises as a ResponseError (a RedisError); of any other table it
\* sends the array part only.  The success tables of the three scripts hold
\* named fields alone (ok is the boolean true, not a status string), so what
\* arrives is the empty list cart_service.py:90-106 deals with.
LuaReply(ret) ==
    IF "err" \in DOMAIN ret
    THEN [kind |-> "error", message |-> ret.err]
    ELSE [kind |-> "list", items |-> << >>]

\* ------------------------------------------------------------------------
\* Request handlers (app/cart_service.py) over the retrying transport
\* (app/redis_client.py)
\* ------------------------------------------------------------------------
NoCall == [op |-> "none"]

NoResult == [status |-> "none"]

NoExec == << >>

Return(value) == [status |-> "return", value |-> value]

Raise(exc) == [status |-> "raise", exc |-> exc]

\* Faulty variant of _get_ttl: every cart gets the user TTL.
get_ttl_AlwaysUser(is_guest) == CART_TTL_SECONDS

\* CartService._get_ttl
get_ttl(is_guest) == IF is_guest THEN GUEST_CART_TTL_SECONDS ELSE CART_TTL_SECONDS

ScriptPcs == {"add_eval", "upd_eval", "merge_eval"}

CommandPcs ==
    ScriptPcs \cup {"add_hget", "merge_exists", "get_exists", "get_hgetall",
                    "rem_hdel", "rem_hlen", "rem_expire", "rem_delete", "clr_delete",
                    "co_exists", "co_hgetall", "co_delete"}

\* The script invocation handler i has pending (AtomicScripts.add_item,
\* update_quantity, merge_cart), run on the database as it stands.
Pending(i) ==
    CASE pc[i] = "add_eval" ->
           ADD_ITEM_SCRIPT(DB, call[i].cart_key, call[i].product_id, call[i].quantity,
                           call[i].price_snapshot, call[i].variant,
                           MAX_ITEMS_PER_CART, MAX_QUANTITY_PER_ITEM, call[i].ttl)
      [] pc[i] = "upd_eval" ->
           UPDATE_QUANTITY_SCRIPT(DB, call[i].cart_key, call[i].product_id,
                                  call[i].quantity, MAX_QUANTITY_PER_ITEM, call[i].ttl)
      [] pc[i] = "merge_eval" ->
           MERGE_CART_SCRIPT(DB, call[i].source_key, call[i].target_key,
                             call[i].conflict_resolution, call[i].ttl)
      [] pc[i] = "rem_hdel" ->
           [db |-> HDEL(DB, call[i].cart_key, call[i].product_id), ret |-> << >>]
      [] pc[i] = "rem_expire" ->
           [db |-> EXPIRE(DB, call[i].cart_key, call[i].ttl), ret |-> << >>]
      [] pc[i] \in {"rem_delete", "clr_delete", "co_delete"} ->
           [db |-> DEL(DB, call[i].cart_key), ret |-> << >>]
      [] OTHER -> [db |-> DB, ret |-> << >>]

\* The server runs handler i's pending command.
ServerRuns(i) ==
    /\ store' = Pending(i).db.store
    /\ ttl' = Pending(i).db.ttl
    /\ exec' = [exec EXCEPT ![i] = IF pc[i] \in ScriptPcs
                                   THEN Append(@, Pending(i).ret)
                                   ELSE @]

ServerIdle == UNCHANGED <<store, ttl, exec>>

Finish(i, result) ==
    /\ pc' = [pc EXCEPT ![i] = "done"]
    /\ res' = [res EXCEPT ![i] = result]
    /\ UNCHANGED call

\* The handler goes on to its next cache command, a fresh _retry_with_backoff.
Goto(i, label) ==
    /\ pc' = [pc EXCEPT ![i] = label]
    /\ attempt' = [attempt EXCEPT ![i] = 0]
    /\ UNCHANGED <<res, call>>

\* ---- add_item -----------------------------------------------------------
\* Faulty variant of add_item's validation: only a negative quantity is rejected.
add_item_AllowsZero(i, cart_id, product_id, quantity, offer) ==
    /\ pc[i] = "idle"
    /\ IF quantity < 0
       THEN /\ pc' = [pc EXCEPT ![i] = "done"]
            /\ res' = [res EXCEPT ![i] = Raise("ValidationError")]
            /\ call' = [call EXCEPT ![i] = [op |-> "add_item"]]
       ELSE IF quantity > MAX_QUANTITY_PER_ITEM
       THEN /\ pc' = [pc EXCEPT ![i] = "done"]
            /\ res' = [res EXCEPT ![i] = Raise("LimitExceededError")]
            /\ call' = [call EXCEPT ![i] = [op |-> "add_item"]]
       ELSE /\ pc' = [pc EXCEPT ![i] = "add_eval"]
            /\ call' = [call EXCEPT ![i] =
                          [op |-> "add_item", cart_key |-> cart_id,
                           product_id |-> product_id, quantity |-> quantity,
                           price_snapshot |-> offer.price,
                           variant |-> OrEmpty(offer.variant),
                           ttl |-> get_ttl(IsGuest(i))]]
            /\ UNCHANGED res
    /\ UNCHANGED <<store, ttl, attempt, exec, faults, scope, store0, retry>>

add_item(i, cart_id, product_id, quantity, offer) ==
    /\ pc[i] = "idle"
    /\ IF quantity <= 0
       THEN /\ pc' = [pc EXCEPT ![i] = "done"]
            /\ res' = [res EXCEPT ![i] = Raise("ValidationError")]
            /\ call' = [call EXCEPT ![i] = [op |-> "add_item"]]
       ELSE IF quantity > MAX_QUANTITY_PER_ITEM
       THEN /\ pc' = [pc EXCEPT ![i] = "done"]
            /\ res' = [res EXCEPT ![i] = Raise("LimitExceededError")]
            /\ call' = [call EXCEPT ![i] = [op |-> "add_item"]]
       ELSE /\ pc' = [pc EXCEPT ![i] = "add_eval"]
            /\ call' = [call EXCEPT ![i] =
                          [op |-> "add_item", cart_key |-> cart_id,
                           product_id |-> product_id, quantity |-> quantity,
                           price_snapshot |-> offer.price,
                           variant |-> OrEmpty(offer.variant),
                           ttl |-> get_ttl(IsGuest(i))]]
            /\ UNCHANGED res
    /\ UNCHANGED <<store, ttl, attempt, exec, faults, scope, store0, retry>>

\* The script ran and its reply arrived; add_item's handling of the result up
\* to its next command.
AddEval(i) ==
    /\ pc[i] = "add_eval"
    /\ ServerRuns(i)
    /\ LET result == LuaReply(Pending(i).ret)
       IN  IF result.kind = "error"
           THEN Finish(i, Raise("RedisConnectionError")) /\ UNCHANGED attempt
           ELSE IF Len(result.items) = 0
           THEN Goto(i, "add_hget")
           ELSE Finish(i, Raise("ValidationError")) /\ UNCHANGED attempt
    /\ UNCHANGED <<faults, scope, store0, retry>>

\* existing = self.redis.hget(cart_key, product_id), after an empty list
AddHget(i) ==
    /\ pc[i] = "add_hget"
    /\ IF HasField(DB, call[i].cart_key, call[i].product_id)
       THEN Finish(i, Return([ok |-> TRUE,
                              quantity |-> HGET(DB, call[i].cart_key,
                                                call[i].product_id).quantity,
                              is_new |-> FALSE]))
       ELSE Finish(i, Raise("RedisConnectionError"))
    /\ ServerIdle
    /\ UNCHANGED <<attempt, faults, scope, store0, retry>>

\* ---- update_quantity ----------------------------------------------------
update_quantity(i, cart_id, product_id, quantity) ==
    /\ pc[i] = "idle"
    /\ IF quantity < 0
       THEN /\ pc' = [pc EXCEPT ![i] = "done"]
            /\ res' = [res EXCEPT ![i] = Raise("ValidationError")]
            /\ call' = [call EXCEPT ![i] = [op |-> "update_quantity"]]
       ELSE IF quantity > MAX_QUANTITY_PER_ITEM
       THEN /\ pc' = [pc EXCEPT ![i] = "done"]
            /\ res' = [res EXCEPT ![i] = Raise("LimitExceededError")]
            /\ call' = [call EXCEPT ![i] = [op |-> "update_quantity"]]
       ELSE /\ pc' = [pc EXCEPT ![i] = "upd_eval"]
            /\ call' = [call EXCEPT ![i] =
                          [op |-> "update_quantity", cart_key |-> cart_id,
                           product_id |-> product_id, quantity |-> quantity,
                           ttl |-> get_ttl(IsGuest(i))]]
            /\ UNCHANGED res
    /\ UNCHANGED <<store, ttl, attempt, exec, faults, scope, store0, retry>>

\* The script ran and its reply arrived.  An error reply leaves eval as a
\* RedisConnectionError; any other result that is no dict is returned as is.
\* Faulty variant of update_quantity's handling of the reply: whatever table
\* the script answered is handed back to the caller.
UpdEval_ReturnsErr(i) ==
    /\ pc[i] = "upd_eval"
    /\ ServerRuns(i)
    /\ Finish(i, Return(Pending(i).ret))
    /\ UNCHANGED <<attempt, faults, scope, store0, retry>>

UpdEval(i) ==
    /\ pc[i] = "upd_eval"
    /\ ServerRuns(i)
    /\ LET result == LuaReply(Pending(i).ret)
       IN  IF result.kind = "error"
           THEN Finish(i, Raise("RedisConnectionError"))
           ELSE Finish(i, Return(result.items))
    /\ UNCHANGED <<attempt, faults, scope, store0, retry>>

\* ---- merge_carts --------------------------------------------------------
\* Faulty variant of merge_carts: the conflict_resolution is not validated.
merge_carts_AnyResolution(i, source_cart_id, target_cart_id, conflict_resolution) ==
    /\ pc[i] = "idle"
    /\ pc' = [pc EXCEPT ![i] = "merge_exists"]
    /\ call' = [call EXCEPT ![i] =
                  [op |-> "merge_carts", source_key |-> source_cart_id,
                   target_key |-> target_cart_id,
                   conflict_resolution |-> conflict_resolution,
                   ttl |-> get_ttl(FALSE)]]
    /\ UNCHANGED <<res, store, ttl, attempt, exec, faults, scope, store0, retry>>

merge_carts(i, source_cart_id, target_cart_id, conflict_resolution) ==
    /\ pc[i] = "idle"
    /\ IF conflict_resolution \notin {"sum", "last-write-wins"}
       THEN /\ pc' = [pc EXCEPT ![i] = "done"]
            /\ res' = [res EXCEPT ![i] = Raise("ValidationError")]
            /\ call' = [call EXCEPT ![i] = [op |-> "merge_carts"]]
       ELSE /\ pc' = [pc EXCEPT ![i] = "merge_exists"]
            /\ call' = [call EXCEPT ![i] =
                          [op |-> "merge_carts", source_key |-> source_cart_id,
                           target_key |-> target_cart_id,
                           conflict_resolution |-> conflict_resolution,
                           ttl |-> get_ttl(FALSE)]]
            /\ UNCHANGED res
    /\ UNCHANGED <<store, ttl, attempt, exec, faults, scope, store0, retry>>

\* Faulty variant of the exists step of merge_carts: an absent source is
\* reported as CartNotFoundError.
MergeExists_Raises(i) ==
    /\ pc[i] = "merge_exists"
    /\ IF EXISTS(DB, call[i].source_key) = 0
       THEN Finish(i, Raise("CartNotFoundError"))
            /\ UNCHANGED attempt
       ELSE Goto(i, "merge_eval")
    /\ ServerIdle
    /\ UNCHANGED <<faults, scope, store0, retry>>

\* if not self.redis.exists(source_key): return {...merged: 0...}
MergeExists(i) ==
    /\ pc[i] = "merge_exists"
    /\ IF EXISTS(DB, call[i].source_key) = 0
       THEN Finish(i, Return([ok |-> TRUE, merged |-> 0, conflicts |-> 0,
                              message |-> "Source cart is empty"]))
            /\ UNCHANGED attempt
       ELSE Goto(i, "merge_eval")
    /\ ServerIdle
    /\ UNCHANGED <<faults, scope, store0, retry>>

\* The script ran and its reply arrived; merge_carts returns it unexamined.
MergeEval(i) ==
    /\ pc[i] = "merge_eval"
    /\ ServerRuns(i)
    /\ LET result == LuaReply(Pending(i).ret)
       IN  IF result.kind = "error"
           THEN Finish(i, Raise("RedisConnectionError"))
           ELSE Finish(i, Return(result.items))
    /\ UNCHANGED <<attempt, faults, scope, store0, retry>>

\* ---- get_cart -----------------------------------------------------------
RECURSIVE TotalItems(_)
TotalItems(items) ==
    IF DOMAIN items = {} THEN 0
    ELSE LET p == CHOOSE x \in DOMAIN items : TRUE
         IN  items[p].quantity + TotalItems([x \in DOMAIN items \ {p} |-> items[x]])

\* Faulty variant of the price total: the line's quantity is left out.
RECURSIVE TotalPrice_PerLine(_)
TotalPrice_PerLine(items) ==
    IF DOMAIN items = {} THEN 0
    ELSE LET p == CHOOSE x \in DOMAIN items : TRUE
         IN  items[p].price_snapshot
               + TotalPrice_PerLine([x \in DOMAIN items \ {p} |-> items[x]])

RECURSIVE TotalPrice(_)
TotalPrice(items) ==
    IF DOMAIN items = {} THEN 0
    ELSE LET p == CHOOSE x \in DOMAIN items : TRUE
         IN  items[p].price_snapshot * items[p].quantity
               + TotalPrice([x \in DOMAIN items \ {p} |-> items[x]])

\* A stored payload is a record of the JSON members it decodes to.  A member
\* holding a number is a field of that name (price_snapshot in cents); a
\* quantity member holding anything but an integer is the field
\* quantity_text, a price_snapshot member holding no decimal is the field
\* price_text; a payload that is no JSON at all is [raw |-> text].
HasMember(item_data, member) ==
    member \in DOMAIN item_data \/ (member \in {"quantity", "price_snapshot"} /\
        (IF member = "quantity" THEN "quantity_text" ELSE "price_text") \in DOMAIN item_data)

\* The body of get_cart's loop for one field: json.loads, the two subscripts,
\* Decimal(str(...)), .get("variant") and the CartItem validation, in the
\* order the statement evaluates them.  Returns the CartItem or raises.
ParseItem(product_id, item_json) ==
    IF "raw" \in DOMAIN item_json THEN Raise("JSONDecodeError")
    ELSE IF ~HasMember(item_json, "quantity") THEN Raise("KeyError")
    ELSE IF ~HasMember(item_json, "price_snapshot") THEN Raise("KeyError")
    ELSE IF "price_text" \in DOMAIN item_json THEN Raise("decimal.InvalidOperation")
    ELSE IF "quantity_text" \in DOMAIN item_json THEN Raise("pydantic.ValidationError")
    ELSE IF item_json.quantity < 0 THEN Raise("pydantic.ValidationError")
    ELSE Return([product_id |-> product_id, quantity |-> item_json.quantity,
                 price_snapshot |-> item_json.price_snapshot,
                 variant |-> IF "variant" \in DOMAIN item_json
                             THEN item_json.variant ELSE None])

\* except (json.JSONDecodeError, KeyError): continue
Skipped(parsed) ==
    parsed.status = "raise" /\ parsed.exc \in {"JSONDecodeError", "KeyError"}

\* The fields whose parse raises what the loop does not catch.
Fatal(items_data) ==
    {p \in DOMAIN items_data :
        /\ ParseItem(p, items_data[p]).status = "raise"
        /\ ~Skipped(ParseItem(p, items_data[p]))}

\* items, once the loop has gone through without raising
ParsedItems(items_data) ==
    [p \in {x \in DOMAIN items_data : ParseItem(x, items_data[x]).status = "return"} |->
        ParseItem(p, items_data[p]).value]

\* The CartResponse get_cart builds from the fields it read.
CartResponse(cart_id, items_data) ==
    IF items_data = EmptyHash
    THEN [cart_id |-> cart_id, items |-> EmptyHash, total_items |-> 0, total_price |-> 0]
    ELSE [cart_id |-> cart_id, items |-> ParsedItems(items_data),
          total_items |-> TotalItems(ParsedItems(items_data)),
          total_price |-> TotalPrice(ParsedItems(items_data))]

get_cart(i, cart_id) ==
    /\ pc[i] = "idle"
    /\ pc' = [pc EXCEPT ![i] = "get_exists"]
    /\ call' = [call EXCEPT ![i] = [op |-> "get_cart", cart_key |-> cart_id]]
    /\ UNCHANGED <<store, ttl, attempt, res, exec, faults, scope, store0, retry>>

\* if not self.redis.exists(cart_key): raise CartNotFoundError(cart_id)
GetExists(i) ==
    /\ pc[i] = "get_exists"
    /\ IF EXISTS(DB, call[i].cart_key) = 0
       THEN Finish(i, Raise("CartNotFoundError")) /\ UNCHANGED attempt
       ELSE Goto(i, "get_hgetall")
    /\ ServerIdle
    /\ UNCHANGED <<faults, scope, store0, retry>>

\* items_data = self.redis.hgetall(cart_key), and the response built of it
GetHgetall(i) ==
    /\ pc[i] = "get_hgetall"
    /\ LET items_data == HGETALL(DB, call[i].cart_key)
       IN  IF Fatal(items_data) = {}
           THEN Finish(i, Return(CartResponse(call[i].cart_key, items_data)))
           ELSE \E p \in Fatal(items_data) :
                    Finish(i, Raise(ParseItem(p, items_data[p]).exc))
    /\ ServerIdle
    /\ UNCHANGED <<attempt, faults, scope, store0, retry>>

\* What get_cart gives when no other command comes between its two reads.
get_cart_result(D, cart_id) ==
    IF EXISTS(D, cart_id) = 0 THEN Raise("CartNotFoundError")
    ELSE IF Fatal(HGETALL(D, cart_id)) # {}
    THEN LET p == CHOOSE x \in Fatal(HGETALL(D, cart_id)) : TRUE
         IN  Raise(ParseItem(p, HGETALL(D, cart_id)[p]).exc)
    ELSE Return(CartResponse(cart_id, HGETALL(D, cart_id)))

\* ---- remove_item --------------------------------------------------------
remove_item(i, cart_id, product_id) ==
    /\ pc[i] = "idle"
    /\ pc' = [pc EXCEPT ![i] = "rem_hdel"]
    /\ call' = [call EXCEPT ![i] =
                  [op |-> "remove_item", cart_key |-> cart_id,
                   product_id |-> product_id, ttl |-> get_ttl(IsGuest(i))]]
    /\ UNCHANGED <<store, ttl, attempt, res, exec, faults, scope, store0, retry>>

\* deleted = self.redis.hdel(cart_key, product_id); return False when 0
RemHdel(i) ==
    /\ pc[i] = "rem_hdel"
    /\ ServerRuns(i)
    /\ IF HasField(DB, call[i].cart_key, call[i].product_id)
       THEN Goto(i, "rem_hlen")
       ELSE Finish(i, Return(FALSE)) /\ UNCHANGED attempt
    /\ UNCHANGED <<faults, scope, store0, retry>>

\* item_count = self.redis.hlen(cart_key)
RemHlen(i) ==
    /\ pc[i] = "rem_hlen"
    /\ ServerIdle
    /\ IF HLEN(DB, call[i].cart_key) > 0
       THEN Goto(i, "rem_expire")
       ELSE Goto(i, "rem_delete")
    /\ UNCHANGED <<faults, scope, store0, retry>>

\* self.redis.expire(cart_key, ttl); return True
RemExpire(i) ==
    /\ pc[i] = "rem_expire"
    /\ ServerRuns(i)
    /\ Finish(i, Return(TRUE))
    /\ UNCHANGED <<attempt, faults, scope, store0, retry>>

\* self.redis.delete(cart_key); return True
RemDelete(i) ==
    /\ pc[i] = "rem_delete"
    /\ ServerRuns(i)
    /\ Finish(i, Return(TRUE))
    /\ UNCHANGED <<attempt, faults, scope, store0, retry>>

\* ---- clear_cart ---------------------------------------------------------
clear_cart(i, cart_id) ==
    /\ pc[i] = "idle"
    /\ pc' = [pc EXCEPT ![i] = "clr_delete"]
    /\ call' = [call EXCEPT ![i] = [op |-> "clear_cart", cart_key |-> cart_id]]
    /\ UNCHANGED <<store, ttl, attempt, res, exec, faults, scope, store0, retry>>

\* deleted = self.redis.delete(cart_key); return deleted > 0
ClearDelete(i) ==
    /\ pc[i] = "clr_delete"
    /\ ServerRuns(i)
    /\ Finish(i, Return(EXISTS(DB, call[i].cart_key) > 0))
    /\ UNCHANGED <<attempt, faults, scope, store0, retry>>

\* ---- start_checkout (app/checkout_service.py) ---------------------------
\* available_stock = 999  # Simulated
available_stock == 999

\* The products of cart whose quantity is above the simulated stock.
inventory_issues(cart) ==
    {p \in DOMAIN cart.items : cart.items[p].quantity > available_stock}

\* The CheckoutResponse built of the cart that was read; order_id is the
\* uuid4 of this call, which no other call has.
CheckoutResponse(order_id, cart) ==
    [order_id |-> order_id, cart_id |-> cart.cart_id, total |-> cart.total_price,
     items |-> cart.items]

start_checkout(i, cart_id) ==
    /\ pc[i] = "idle"
    /\ pc' = [pc EXCEPT ![i] = "co_exists"]
    /\ call' = [call EXCEPT ![i] = [op |-> "start_checkout", cart_key |-> cart_id]]
    /\ UNCHANGED <<store, ttl, attempt, res, exec, faults, scope, store0, retry>>

\* get_cart's exists check; its CartNotFoundError is raised as ValidationError
CheckoutExists(i) ==
    /\ pc[i] = "co_exists"
    /\ IF EXISTS(DB, call[i].cart_key) = 0
       THEN Finish(i, Raise("ValidationError")) /\ UNCHANGED attempt
       ELSE Goto(i, "co_hgetall")
    /\ ServerIdle
    /\ UNCHANGED <<faults, scope, store0, retry>>

\* get_cart's hgetall and response, then the empty-cart and inventory checks
\* and the order, up to the clear_cart call.  The cart read is kept in the
\* call's frame.
CheckoutHgetall(i) ==
    /\ pc[i] = "co_hgetall"
    /\ LET items_data == HGETALL(DB, call[i].cart_key)
           cart       == CartResponse(call[i].cart_key, items_data)
       IN  IF Fatal(items_data) # {}
           THEN /\ \E p \in Fatal(items_data) :
                      Finish(i, Raise(ParseItem(p, items_data[p]).exc))
                /\ UNCHANGED attempt
           ELSE IF DOMAIN cart.items = {} \/ inventory_issues(cart) # {}
           THEN Finish(i, Raise("ValidationError")) /\ UNCHANGED attempt
           ELSE /\ pc' = [pc EXCEPT ![i] = "co_delete"]
                /\ attempt' = [attempt EXCEPT ![i] = 0]
                /\ call' = [call EXCEPT ![i] =
                              [op |-> "start_checkout", cart_key |-> call[i].cart_key,
                               cart |-> cart]]
                /\ UNCHANGED res
    /\ ServerIdle
    /\ UNCHANGED <<faults, scope, store0, retry>>

\* self.cart_service.clear_cart(cart_id), and the response returned
CheckoutDelete(i) ==
    /\ pc[i] = "co_delete"
    /\ ServerRuns(i)
    /\ Finish(i, Return(CheckoutResponse(i, call[i].cart)))
    /\ UNCHANGED <<attempt, faults, scope, store0, retry>>

\* ---- transport failures (RedisClient._retry_with_backoff) ---------------
\* An attempt ended in ConnectionError or TimeoutError: raise after the last
\* attempt, else sleep, reconnect and go round the loop again.
TransientFailure(i) ==
    IF attempt[i] = max_retries - 1
    THEN Finish(i, Raise("RedisConnectionError")) /\ UNCHANGED attempt
    ELSE /\ attempt' = [attempt EXCEPT ![i] = @ + 1]
         /\ UNCHANGED <<pc, res, call>>

\* The command never reached the server.
ConnectionFailure(i) ==
    /\ pc[i] \in CommandPcs
    /\ faults > 0
    /\ faults' = faults - 1
    /\ ServerIdle
    /\ TransientFailure(i)
    /\ UNCHANGED <<scope, store0, retry>>

\* The server ran the command, and the reply did not arrive within the
\* socket timeout.
Timeout(i) ==
    /\ pc[i] \in CommandPcs
    /\ faults > 0
    /\ faults' = faults - 1
    /\ ServerRuns(i)
    /\ TransientFailure(i)
    /\ UNCHANGED <<scope, store0, retry>>

\* ------------------------------------------------------------------------
\* RedisClient._retry_with_backoff on its own, one statement a step.  retry is
\*   [pc, attempt, backoff, outcomes, slept, reconnects, result]:
\* outcomes lists what each invocation of func did, slept the time.sleep
\* arguments, reconnects counts the _connect calls.
\* ------------------------------------------------------------------------
\* redis.exceptions: the classes func can raise, and the classes each is an
\* instance of.
RedisExceptions ==
    {"ConnectionError", "TimeoutError", "AuthenticationError", "ResponseError"}

Bases(exc) ==
    CASE exc = "ConnectionError"     -> {"ConnectionError", "RedisError"}
      [] exc = "TimeoutError"        -> {"TimeoutError", "RedisError"}
      [] exc = "AuthenticationError" -> {"AuthenticationError", "ConnectionError", "RedisError"}
      [] exc = "ResponseError"       -> {"ResponseError", "RedisError"}
      [] OTHER                       -> {exc}

\* except (ConnectionError, TimeoutError)
IsTransient(exc) == Bases(exc) \cap {"ConnectionError", "TimeoutError"} # {}

\* What func returns when it returns.
Values == {"PONG", "OK"}

Outcomes ==
    {Return(v) : v \in Values} \cup {Raise(e) : e \in RedisExceptions}

\* The keyword arguments of _retry_with_backoff: its defaults and, to see the
\* loop with other budgets and a cap that is reached, a few more.
TightMaxBackoff == 150

RetryArgs ==
    { [max_retries |-> n, initial_backoff |-> initial_backoff, max_backoff |-> m] :
        n \in {1, max_retries, max_retries + 1}, m \in {max_backoff, TightMaxBackoff} }

DefaultArgs ==
    [max_retries |-> max_retries, initial_backoff |-> initial_backoff,
     max_backoff |-> max_backoff]

\* log lists what the call did, in order: "call" for func(), "sleep" for
\* time.sleep, "connect" and "connect_failed" for self._connect().
RetryIdle ==
    [pc |-> "idle", args |-> DefaultArgs, attempt |-> 0, backoff |-> 0,
     outcomes |-> << >>, slept |-> << >>, reconnects |-> 0, log |-> << >>,
     result |-> NoResult]

\* random.uniform(0, backoff * 0.1): its two ends and the middle
Jitters(backoff) == {0, backoff \div 20, backoff \div 10}

Min(a, b) == IF a <= b THEN a ELSE b

\* The handlers and the cache stand still while the loop is looked at.
CartIdle == UNCHANGED <<store, ttl, pc, call, attempt, res, exec, faults, scope, store0>>

\* backoff = initial_backoff; for attempt in range(max_retries):
RetryEnter(args) ==
    /\ retry.pc = "idle"
    /\ retry' = [retry EXCEPT !.args = args,
                              !.pc = IF args.max_retries > 0 THEN "try" ELSE "returned",
                              !.backoff = args.initial_backoff,
                              !.result = IF args.max_retries > 0
                                         THEN NoResult ELSE Return(None)]
    /\ CartIdle

\* Faulty variant of the handling of func's outcome: the last attempt is
\* taken for the one numbered max_retries.
RetryOutcome_OffByOne(rt, outcome) ==
    LET seen == [rt EXCEPT !.outcomes = Append(@, outcome), !.log = Append(@, "call")]
    IN  IF outcome.status = "return"
        THEN [seen EXCEPT !.pc = "returned", !.result = outcome]
        ELSE IF IsTransient(outcome.exc)
        THEN IF rt.attempt = rt.args.max_retries
             THEN [seen EXCEPT !.pc = "raised",
                               !.result = [status |-> "raise", exc |-> "RedisConnectionError",
                                           cause |-> outcome.exc]]
             ELSE [seen EXCEPT !.pc = "sleep"]
        ELSE [seen EXCEPT !.pc = "raised",
                          !.result = [status |-> "raise", exc |-> "RedisConnectionError",
                                      cause |-> outcome.exc]]

\* try: return func() / except (ConnectionError, TimeoutError) / except RedisError
RetryOutcome(rt, outcome) ==
    LET seen == [rt EXCEPT !.outcomes = Append(@, outcome), !.log = Append(@, "call")]
    IN  IF outcome.status = "return"
        THEN [seen EXCEPT !.pc = "returned", !.result = outcome]
        ELSE IF IsTransient(outcome.exc)
        THEN IF rt.attempt = rt.args.max_retries - 1
             THEN [seen EXCEPT !.pc = "raised",
                               !.result = [status |-> "raise", exc |-> "RedisConnectionError",
                                           cause |-> outcome.exc]]
             ELSE [seen EXCEPT !.pc = "sleep"]
        ELSE [seen EXCEPT !.pc = "raised",
                          !.result = [status |-> "raise", exc |-> "RedisConnectionError",
                                      cause |-> outcome.exc]]

RetryTry(outcome) ==
    /\ retry.pc = "try"
    /\ retry' = RetryOutcome(retry, outcome)
    /\ CartIdle

\* jitter = random.uniform(0, backoff * 0.1); time.sleep(backoff + jitter);
\* backoff = min(backoff * 2, max_backoff)
RetrySleep(jitter) ==
    /\ retry.pc = "sleep"
    /\ retry' = [retry EXCEPT !.pc = "reconnect",
                              !.slept = Append(@, retry.backoff + jitter),
                              !.log = Append(@, "sleep"),
                              !.backoff = Min(retry.backoff * 2, retry.args.max_backoff)]
    /\ CartIdle

\* Faulty variant of the reconnect step: a _connect() that fails ends the call
\* with its RedisConnectionError.
RetryReconnect_Aborts(connected) ==
    /\ retry.pc = "reconnect"
    /\ retry' = [retry EXCEPT !.reconnects = @ + 1,
                              !.log = Append(@, IF connected THEN "connect"
                                                ELSE "connect_failed"),
                              !.attempt = @ + 1,
                              !.pc = IF connected THEN "try" ELSE "raised",
                              !.result = IF connected THEN NoResult
                                         ELSE [status |-> "raise",
                                               exc |-> "RedisConnectionError",
                                               cause |-> "RedisConnectionError"]]
    /\ CartIdle

\* try: self._connect() / except Exception: pass; then the loop goes round, and
\* a loop that runs out falls off the end of the function.
RetryReconnect(connected) ==
    /\ retry.pc = "reconnect"
    /\ retry' = [retry EXCEPT !.reconnects = @ + 1,
                              !.log = Append(@, IF connected THEN "connect"
                                                ELSE "connect_failed"),
                              !.attempt = @ + 1,
                              !.pc = IF retry.attempt + 1 < retry.args.max_retries
                                     THEN "try" ELSE "returned",
                              !.result = IF retry.attempt + 1 < retry.args.max_retries
                                         THEN NoResult ELSE Return(None)]
    /\ CartIdle

RetryInit ==
    /\ retry = RetryIdle
    /\ scope = [carts |-> {"g"}, products |-> {"A"}, faults |-> 0]
    /\ store = [c \in Carts |-> EmptyHash]
    /\ ttl = [c \in Carts |-> NoKey]
    /\ store0 = store
    /\ faults = 0
    /\ pc = [i \in Clients |-> "idle"]
    /\ call = [i \in Clients |-> NoCall]
    /\ attempt = [i \in Clients |-> 0]
    /\ res = [i \in Clients |-> NoResult]
    /\ exec = [i \in Clients |-> NoExec]

\* ------------------------------------------------------------------------
\* Initial states: a cache some earlier add_item calls have filled, within
\* both limits, and the idle handlers.
\* ------------------------------------------------------------------------
Scenarios ==
    { [carts |-> {"g", "u", "w"}, products |-> {"A"},        faults |-> 0],
      [carts |-> {"g", "u"},      products |-> {"A", "B"},   faults |-> 0],
      [carts |-> {"g"},           products |-> Products,     faults |-> 0],
      [carts |-> {"g"},           products |-> {"A"},        faults |-> MaxFaults] }

\* The entry an earlier add_item left in cart c.
SeedItem(c) ==
    IF c = "g" THEN cjson_encode(1, 1200, "red")
    ELSE cjson_encode(MAX_QUANTITY_PER_ITEM, 1000, "")

SeedHashes(sc, c) ==
    IF c \notin sc.carts THEN {EmptyHash}
    ELSE { [p \in S |-> SeedItem(c)] :
             S \in {T \in SUBSET sc.products : Cardinality(T) <= MAX_ITEMS_PER_CART} }

SeedTtl(st, c) ==
    IF st[c] = EmptyHash THEN NoKey ELSE get_ttl(c = "g")

AddQuantities == 0 .. MAX_QUANTITY_PER_ITEM + 1

UpdateQuantities == -1 .. MAX_QUANTITY_PER_ITEM + 1

Resolutions == {"sum", "last-write-wins", "max"}

Init ==
    /\ scope \in Scenarios
    /\ store \in { st \in [Carts -> UNION {SeedHashes(scope, c) : c \in Carts}] :
                     \A c \in Carts : st[c] \in SeedHashes(scope, c) }
    /\ ttl = [c \in Carts |-> SeedTtl(store, c)]
    /\ store0 = store
    /\ faults = scope.faults
    /\ pc = [i \in Clients |-> "idle"]
    /\ call = [i \in Clients |-> NoCall]
    /\ attempt = [i \in Clients |-> 0]
    /\ res = [i \in Clients |-> NoResult]
    /\ exec = [i \in Clients |-> NoExec]
    /\ retry = RetryIdle

Next ==
    \E i \in Clients :
        \/ \E c \in scope.carts, p \in scope.products, q \in AddQuantities, o \in Offers :
               add_item(i, c, p, q, o)
        \/ AddEval(i)
        \/ AddHget(i)
        \/ \E c \in scope.carts, p \in scope.products, q \in UpdateQuantities :
               update_quantity(i, c, p, q)
        \/ UpdEval(i)
        \/ \E s \in scope.carts, t \in scope.carts, r \in Resolutions :
               merge_carts(i, s, t, r)
        \/ MergeExists(i)
        \/ MergeEval(i)
        \/ \E c \in scope.carts : get_cart(i, c)
        \/ GetExists(i)
        \/ GetHgetall(i)
        \/ \E c \in scope.carts, p \in scope.products : remove_item(i, c, p)
        \/ RemHdel(i)
        \/ RemHlen(i)
        \/ RemExpire(i)
        \/ RemDelete(i)
        \/ \E c \in scope.carts : clear_cart(i, c)
        \/ ClearDelete(i)
        \/ ConnectionFailure(i)
        \/ Timeout(i)

Spec == Init /\ [][Next]_vars

\* Payloads a cart can be found to hold when other writers share the cache:
\* the two lines of a sound cart, and one payload for each way of being
\* corrupt.
StoredPayloads ==
    { cjson_encode(2, 1999, ""),
      cjson_encode(1, 500, "red"),
      [raw |-> "{"],
      [price_snapshot |-> 500, variant |-> ""],
      [quantity |-> 1, variant |-> ""],
      [quantity |-> 1, price_text |-> "abc", variant |-> ""],
      [quantity |-> 0 - 1, price_snapshot |-> 500, variant |-> ""],
      [quantity_text |-> "1.5", price_snapshot |-> 500, variant |-> ""] }

\* The carts cart g can be found as: any products, any payloads.
\* Two carts that may hold one product, or one cart and commands that may fail.
MutateInit ==
    /\ scope \in { [carts |-> {"g", "u"}, products |-> {"A"}, faults |-> 0],
                    [carts |-> {"g"}, products |-> {"A"}, faults |-> MaxFaults] }
    /\ store \in { st \in [Carts -> UNION {SeedHashes(scope, c) : c \in Carts}] :
                     \A c \in Carts : st[c] \in SeedHashes(scope, c) }
    /\ ttl = [c \in Carts |-> SeedTtl(store, c)]
    /\ store0 = store
    /\ faults = scope.faults
    /\ pc = [i \in Clients |-> "idle"]
    /\ call = [i \in Clients |-> NoCall]
    /\ attempt = [i \in Clients |-> 0]
    /\ res = [i \in Clients |-> NoResult]
    /\ exec = [i \in Clients |-> NoExec]
    /\ retry = RetryIdle

\* The three mutations on their own, with the transport failures.
MutateNext ==
    \E i \in Clients :
        \/ \E c \in scope.carts, p \in scope.products, q \in AddQuantities, o \in Offers :
               add_item(i, c, p, q, o)
        \/ AddEval(i)
        \/ AddHget(i)
        \/ \E c \in scope.carts, p \in scope.products, q \in UpdateQuantities :
               update_quantity(i, c, p, q)
        \/ UpdEval(i)
        \/ \E s \in scope.carts, t \in scope.carts, r \in Resolutions :
               merge_carts(i, s, t, r)
        \/ MergeExists(i)
        \/ MergeEval(i)
        \/ ConnectionFailure(i)
        \/ Timeout(i)

\* What handler i does once its call has started: the server's answers to its
\* commands and its own handling of them.
Progress(i) ==
    AddEval(i) \/ AddHget(i) \/ UpdEval(i) \/ MergeExists(i) \/ MergeEval(i)

\* Each handler's thread is scheduled and the server answers the commands it
\* receives.
MutateLive ==
    MutateInit /\ [][MutateNext]_vars /\ \A i \in Clients : WF_vars(Progress(i))

ReadInit ==
    /\ scope = [carts |-> {"g"}, products |-> Products, faults |-> 0]
    /\ \E S \in SUBSET Products : \E h \in [S -> StoredPayloads] :
           store = [c \in Carts |-> IF c = "g" THEN h ELSE EmptyHash]
    /\ ttl = [c \in Carts |-> SeedTtl(store, c)]
    /\ store0 = store
    /\ faults = 0
    /\ pc = [i \in Clients |-> "idle"]
    /\ call = [i \in Clients |-> NoCall]
    /\ attempt = [i \in Clients |-> 0]
    /\ res = [i \in Clients |-> NoResult]
    /\ exec = [i \in Clients |-> NoExec]
    /\ retry = RetryIdle

\* Reads of the cart, next to a clear_cart that may take it away.
ReadNext ==
    \E i \in Clients :
        \/ \E c \in scope.carts : get_cart(i, c)
        \/ GetExists(i)
        \/ GetHgetall(i)
        \/ \E c \in scope.carts : clear_cart(i, c)
        \/ ClearDelete(i)

ReadSpec == ReadInit /\ [][ReadNext]_vars

\* One cart that may hold two products, and no failing command.
CheckoutInit ==
    /\ scope = [carts |-> {"g"}, products |-> {"A", "B"}, faults |-> 0]
    /\ store \in { st \in [Carts -> UNION {SeedHashes(scope, c) : c \in Carts}] :
                     \A c \in Carts : st[c] \in SeedHashes(scope, c) }
    /\ ttl = [c \in Carts |-> SeedTtl(store, c)]
    /\ store0 = store
    /\ faults = scope.faults
    /\ pc = [i \in Clients |-> "idle"]
    /\ call = [i \in Clients |-> NoCall]
    /\ attempt = [i \in Clients |-> 0]
    /\ res = [i \in Clients |-> NoResult]
    /\ exec = [i \in Clients |-> NoExec]
    /\ retry = RetryIdle

\* Checkouts of the cart, next to adds to it.
CheckoutNext ==
    \E i \in Clients :
        \/ \E c \in scope.carts : start_checkout(i, c)
        \/ CheckoutExists(i)
        \/ CheckoutHgetall(i)
        \/ CheckoutDelete(i)
        \/ \E c \in scope.carts, p \in scope.products, q \in AddQuantities, o \in Offers :
               add_item(i, c, p, q, o)
        \/ AddEval(i)
        \/ AddHget(i)

CheckoutSpec == CheckoutInit /\ [][CheckoutNext]_vars

\* One call of _retry_with_backoff, whatever func does at each invocation.
RetryNext ==
    \/ \E args \in RetryArgs : RetryEnter(args)
    \/ \E outcome \in Outcomes : RetryTry(outcome)
    \/ \E jitter \in Jitters(retry.backoff) : RetrySleep(jitter)
    \/ \E connected \in BOOLEAN : RetryReconnect(connected)

RetrySpec == RetryInit /\ [][RetryNext]_vars

\* The thread running the call is scheduled until the call is over.
RetryLive == RetrySpec /\ WF_vars(RetryNext)

\* ------------------------------------------------------------------------
\* Properties
\* ------------------------------------------------------------------------
\* The server ran handler i's script in this step.
Ran(i) == Len(exec'[i]) = Len(exec[i]) + 1

\* The Lua table that run returned, and the one the last run so far returned.
NewRet(i) == exec'[i][Len(exec'[i])]

LastRet(i) == exec[i][Len(exec[i])]

IsOk(ret) == "ok" \in DOMAIN ret

IsErr(ret, tag) == "err" \in DOMAIN ret /\ ret.err = tag

Quantity(st, c, p) == IF p \in DOMAIN st[c] THEN st[c][p].quantity ELSE 0

AllReturned == \A i \in Clients : pc[i] \in {"idle", "done"}

\* Handler i's request reached the cache as add_item(c, p, ...).
IsAddOn(i, c, p) ==
    /\ call[i].op = "add_item"
    /\ "cart_key" \in DOMAIN call[i]
    /\ call[i].cart_key = c
    /\ call[i].product_id = p

\* Every request made so far is an add_item, and those the cache saw are on (c, p).
OnlyAddsOn(c, p) ==
    \A i \in Clients :
        pc[i] # "idle" =>
            /\ call[i].op = "add_item"
            /\ "cart_key" \in DOMAIN call[i] => IsAddOn(i, c, p)

RECURSIVE SuccessfulDeltas(_)
SuccessfulDeltas(S) ==
    IF S = {} THEN 0
    ELSE LET i == CHOOSE x \in S : TRUE
         IN  (IF pc[i] = "done" /\ res[i].status = "return" THEN call[i].quantity ELSE 0)
               + SuccessfulDeltas(S \ {i})

\* C1: when only add_item calls on one cart and product have run and all have
\* returned, the stored quantity is what was stored before plus the deltas of
\* the calls that returned success.
C1_StoredIsSumOfSuccessfulAdds ==
    \A c \in Carts, p \in Products :
        (AllReturned /\ OnlyAddsOn(c, p)) =>
            Quantity(store, c, p) = Quantity(store0, c, p) + SuccessfulDeltas(Clients)

C3_AddWithinMaxQuantity ==
    [][\A i \in Clients :
          (pc[i] = "add_eval" /\ Ran(i) /\ IsOk(NewRet(i))) =>
            /\ HasField(DB', call[i].cart_key, call[i].product_id)
            /\ Quantity(store', call[i].cart_key, call[i].product_id)
                 <= MAX_QUANTITY_PER_ITEM]_vars

\* Two concurrent adds on one product both succeeded and filled it to the limit.
C3_Witness ==
    \E c \in Carts, p \in Products :
        /\ \A i \in Clients : IsAddOn(i, c, p) /\ Len(exec[i]) = 1 /\ IsOk(LastRet(i))
        /\ Quantity(store, c, p) = MAX_QUANTITY_PER_ITEM
        /\ Quantity(store0, c, p) = 0

\* C4: an add script that stores a new product leaves the cart with at most
\* max_items_per_cart products.
C4_NewProductWithinMaxItems ==
    [][\A i \in Clients :
          (pc[i] = "add_eval" /\ Ran(i) /\ IsOk(NewRet(i)) /\ NewRet(i).is_new) =>
            HLEN(DB', call[i].cart_key) <= MAX_ITEMS_PER_CART]_vars

\* Two handlers add different new products to a cart with room for one: the
\* first took the last place and is still in its call when the second is refused.
C4_Witness ==
    \E i, j \in Clients, c \in Carts :
        /\ i # j
        /\ pc[i] = "add_hget" /\ call[i].cart_key = c
        /\ IsOk(LastRet(i)) /\ LastRet(i).is_new
        /\ call[j].op = "add_item" /\ "cart_key" \in DOMAIN call[j]
        /\ call[j].cart_key = c /\ call[j].product_id # call[i].product_id
        /\ Len(exec[j]) = 1 /\ IsErr(LastRet(j), "MAX_ITEMS_EXCEEDED")
        /\ HLEN(DB, c) = MAX_ITEMS_PER_CART
        /\ Cardinality(DOMAIN store0[c]) = MAX_ITEMS_PER_CART - 1

\* C5: every stored quantity is within max_quantity_per_item and every cart
\* holds at most max_items_per_cart products.
C5_LimitsHold ==
    \A c \in Carts :
        /\ HLEN(DB, c) <= MAX_ITEMS_PER_CART
        /\ \A p \in DOMAIN store[c] : store[c][p].quantity <= MAX_QUANTITY_PER_ITEM

\* Handler i's merge_carts passed validation and holds its arguments.
IsMerge(i) == call[i].op = "merge_carts" /\ "source_key" \in DOMAIN call[i]

\* C6: an update script that succeeds with quantity 0 leaves the product out
\* of the cart; when it was the cart's only product the key is gone and
\* get_cart then raises CartNotFoundError.
C6_UpdateToZeroRemoves ==
    [][\A i \in Clients :
          (pc[i] = "upd_eval" /\ Ran(i) /\ call[i].quantity = 0 /\ IsOk(NewRet(i))) =>
            LET c == call[i].cart_key
                p == call[i].product_id
            IN  /\ ~HasField(DB', c, p)
                /\ (pc'[i] = "done" /\ faults' = faults => res'[i].status = "return")
                /\ DOMAIN store[c] = {p} =>
                      /\ EXISTS(DB', c) = 0
                      /\ ttl'[c] = NoKey
                      /\ get_cart_result(DB', c) = Raise("CartNotFoundError")
                /\ DOMAIN store[c] # {p} =>
                      /\ EXISTS(DB', c) = 1
                      /\ get_cart_result(DB', c).status = "return"
                      /\ p \notin DOMAIN get_cart_result(DB', c).value.items]_vars

\* One handler's update_quantity(c, p, 0) returned after removing the only
\* product of c, and the other's get_cart(c) then raised CartNotFoundError.
C6_Witness ==
    \E i, j \in Clients :
        /\ pc[i] = "done" /\ call[i].op = "update_quantity"
        /\ res[i].status = "return"
        /\ Len(exec[i]) = 1 /\ call[i].quantity = 0
        /\ DOMAIN store0[call[i].cart_key] = {call[i].product_id}
        /\ pc[j] = "done" /\ call[j].op = "get_cart"
        /\ res[j] = Raise("CartNotFoundError")
        /\ call[j].cart_key = call[i].cart_key

\* C7: merge_carts on an absent source returns success with merged = 0
\* without raising, whether its exists check or its script finds the source
\* gone, and the cache is left as it was.
C7_MergeAbsentSource ==
    [][\A i \in Clients :
          /\ (pc[i] = "merge_exists" /\ pc'[i] # pc[i] /\ faults' = faults
                /\ EXISTS(DB, call[i].source_key) = 0) =>
                /\ pc'[i] = "done"
                /\ res'[i].status = "return"
                /\ res'[i].value.ok /\ res'[i].value.merged = 0
                /\ <<store, ttl>>' = <<store, ttl>>
          /\ (pc[i] = "merge_eval" /\ Ran(i) /\ EXISTS(DB, call[i].source_key) = 0) =>
                /\ IsOk(NewRet(i)) /\ NewRet(i).merged = 0
                /\ (pc'[i] = "done" /\ faults' = faults => res'[i].status = "return")
                /\ <<store, ttl>>' = <<store, ttl>>]_vars

\* A merge consumed the source and the other handler's later merge of the
\* same source into a cart that holds something returned merged = 0.
C7_Witness ==
    \E i, j \in Clients :
        /\ pc[i] = "done" /\ IsMerge(i) /\ Len(exec[i]) = 1
        /\ LastRet(i).merged > 0
        /\ pc[j] = "done" /\ IsMerge(j) /\ Len(exec[j]) = 0
        /\ call[j].source_key = call[i].source_key
        /\ res[j].status = "return" /\ res[j].value.merged = 0
        /\ call[j].target_key # call[j].source_key
        /\ store[call[j].target_key] # EmptyHash
        /\ store[call[j].target_key] = store0[call[j].target_key]

\* The entry the 'sum' policy leaves in the target for a product of both carts.
SumOf(target_item, source_item) ==
    [quantity |-> target_item.quantity + source_item.quantity,
     price_snapshot |-> source_item.price_snapshot,
     variant |-> source_item.variant]

\* The merge script ran for handler i, from a source with entries into another cart.
MergeRan(i, resolution) ==
    /\ pc[i] = "merge_eval" /\ Ran(i)
    /\ call[i].conflict_resolution = resolution
    /\ call[i].source_key # call[i].target_key
    /\ store[call[i].source_key] # EmptyHash

\* C8: a 'sum' merge between two carts leaves, for every source product, the
\* summed quantity with the source's price_snapshot and variant when the target
\* held it and the source entry otherwise; merged counts the source products
\* and conflicts those of both carts.
C8_MergeSum ==
    [][\A i \in Clients :
          MergeRan(i, "sum") =>
            LET src == store[call[i].source_key]
                tgt == store[call[i].target_key]
                new == store'[call[i].target_key]
            IN  /\ \A p \in DOMAIN src :
                      /\ p \in DOMAIN new
                      /\ new[p] = IF p \in DOMAIN tgt THEN SumOf(tgt[p], src[p]) ELSE src[p]
                /\ NewRet(i).merged = Cardinality(DOMAIN src)
                /\ NewRet(i).conflicts = Cardinality(DOMAIN src \cap DOMAIN tgt)]_vars

\* The merge of the specification's example: the source holds A and B, the
\* target held A with another price; A is summed at the source's price, B copied.
C8_Witness ==
    \E i \in Clients :
        /\ pc[i] = "done" /\ IsMerge(i)
        /\ call[i].source_key = "g" /\ call[i].target_key = "u"
        /\ call[i].conflict_resolution = "sum"
        /\ Len(exec[i]) = 1
        /\ LastRet(i).merged = 2 /\ LastRet(i).conflicts = 1
        /\ DOMAIN store0["u"] = {"A"} /\ DOMAIN store0["g"] = {"A", "B"}
        /\ store0["u"]["A"].price_snapshot # store0["g"]["A"].price_snapshot
        /\ store["u"]["A"] = SumOf(store0["u"]["A"], store0["g"]["A"])
        /\ store["u"]["B"] = store0["g"]["B"]

\* C9: a 'last-write-wins' merge between two carts leaves, for every product
\* of both carts, exactly the source entry in the target.
C9_MergeLastWriteWins ==
    [][\A i \in Clients :
          MergeRan(i, "last-write-wins") =>
            \A p \in DOMAIN store[call[i].source_key] \cap DOMAIN store[call[i].target_key] :
                /\ p \in DOMAIN store'[call[i].target_key]
                /\ store'[call[i].target_key][p] = store[call[i].source_key][p]]_vars

\* A last-write-wins merge replaced a target entry of another quantity, price
\* and variant by the source's.
C9_Witness ==
    \E i \in Clients :
        /\ pc[i] = "done" /\ IsMerge(i)
        /\ call[i].source_key = "g" /\ call[i].target_key = "u"
        /\ call[i].conflict_resolution = "last-write-wins"
        /\ Len(exec[i]) = 1 /\ LastRet(i).conflicts = 1
        /\ "A" \in DOMAIN store0["u"] /\ "A" \in DOMAIN store0["g"]
        /\ store0["u"]["A"].quantity # store0["g"]["A"].quantity
        /\ store0["u"]["A"].price_snapshot # store0["g"]["A"].price_snapshot
        /\ store0["u"]["A"].variant # store0["g"]["A"].variant
        /\ store["u"]["A"] = store0["g"]["A"]

\* Some run of handler i's merge script moved entries.
Moved(i) == \E k \in 1 .. Len(exec[i]) : exec[i][k].merged > 0

\* C10: a merge script that finds entries in its source leaves the source key
\* absent, one that finds none reports merged = 0 and moves nothing, and of two
\* merges of one source into different targets at most one moves entries.
C10_MergeOnce ==
    /\ [][\A i \in Clients :
            (pc[i] = "merge_eval" /\ Ran(i)) =>
              /\ EXISTS(DB', call[i].source_key) = 0
              /\ ttl'[call[i].source_key] = NoKey
              /\ store[call[i].source_key] = EmptyHash =>
                    NewRet(i).merged = 0 /\ store' = store
              /\ store[call[i].source_key] # EmptyHash => NewRet(i).merged > 0]_vars
    /\ [](\A i, j \in Clients :
            (/\ i # j
             /\ IsMerge(i) /\ IsMerge(j)
             /\ Len(exec[i]) > 0 /\ Len(exec[j]) > 0
             /\ call[i].source_key = call[j].source_key
             /\ call[i].target_key # call[j].target_key) =>
                ~(Moved(i) /\ Moved(j)))

\* Two merges of one source into two other carts both passed the exists check;
\* the script of one moved the entries, the script of the other found none.
C10_Witness ==
    \E i, j \in Clients :
        /\ pc[i] = "done" /\ pc[j] = "done"
        /\ IsMerge(i) /\ IsMerge(j)
        /\ Len(exec[i]) = 1 /\ Len(exec[j]) = 1
        /\ call[i].source_key = call[j].source_key
        /\ call[i].target_key # call[j].target_key
        /\ call[i].target_key # call[i].source_key
        /\ call[j].target_key # call[j].source_key
        /\ LastRet(i).merged > 0 /\ LastRet(j).merged = 0
        /\ store[call[i].source_key] = EmptyHash
        /\ store[call[j].target_key] = store0[call[j].target_key]

C12_QuantityAtLeastOne ==
    \A c \in Carts : \A p \in DOMAIN store[c] : QuantityOf(store[c][p]) >= 1

\* An update script run with quantity 0 answered ok on a cart holding another
\* product as well: the product is gone, and what stays has its quantity.
C12_Witness ==
    \E i \in Clients :
        /\ pc[i] = "done" /\ call[i].op = "update_quantity" /\ Len(exec[i]) = 1
        /\ call[i].quantity = 0 /\ IsOk(LastRet(i))
        /\ call[i].product_id \notin DOMAIN store[call[i].cart_key]
        /\ store[call[i].cart_key] # EmptyHash

\* Handler i is the only one to have started a request.
Alone(i) == \A j \in Clients \ {i} : pc[j] = "idle"

\* The step in which handler i's command at label fails its last attempt
\* with a ConnectionError or TimeoutError, as all attempts before it did.
Exhausts(i, label) ==
    /\ pc[i] = label /\ pc'[i] = "done"
    /\ attempt[i] = max_retries - 1
    /\ faults' # faults

\* C13: when every attempt of add_item's script invocation fails with a
\* transport error, add_item raises RedisConnectionError and the cart holds
\* what it held before the call.
C13_ExhaustedAddLeavesCart ==
    [][\A i \in Clients :
          (Exhausts(i, "add_eval") /\ Alone(i)) =>
              /\ res'[i] = Raise("RedisConnectionError")
              /\ store'[call[i].cart_key] = store0[call[i].cart_key]]_vars

\* The runs of handler i's script that answered ok, i.e. applied their write.
Applied(i) == {k \in 1 .. Len(exec[i]) : IsOk(exec[i][k])}

\* C14: one add_item call applies its delta to the stored item at most once,
\* whatever attempts time out after the server ran the script.
C14_AddAppliedAtMostOnce ==
    \A i \in Clients :
        call[i].op = "add_item" => Cardinality(Applied(i)) <= 1

\* The loop of _retry_with_backoff is over.
RetryOver == retry.pc \in {"returned", "raised"}

\* Invocation k of func failed with a connection or timeout error.
FailedTransient(k) ==
    retry.outcomes[k].status = "raise" /\ IsTransient(retry.outcomes[k].exc)

\* C15: _retry_with_backoff terminates; it invokes func at most max_retries
\* times; when it returns, it returns what the first invocation that did not
\* fail returned; when max_retries invocations failed with connection or
\* timeout errors it has raised RedisConnectionError with the last of them as
\* its cause, and it raises once.
C15_RetryTerminates ==
    /\ [](Len(retry.outcomes) <= retry.args.max_retries)
    /\ [](retry.pc = "returned" =>
            LET n == Len(retry.outcomes)
            IN  /\ n >= 1
                /\ retry.outcomes[n].status = "return"
                /\ retry.result = retry.outcomes[n]
                /\ \A k \in 1 .. n - 1 : FailedTransient(k))
    /\ []((/\ Len(retry.outcomes) = retry.args.max_retries
           /\ \A k \in 1 .. retry.args.max_retries : FailedTransient(k)) =>
              /\ retry.pc = "raised"
              /\ retry.result.exc = "RedisConnectionError"
              /\ retry.result.cause = retry.outcomes[retry.args.max_retries].exc)
    /\ [][RetryOver => retry' = retry]_vars
    /\ <>RetryOver

\* Three invocations failed, with a timeout between two connection errors, and
\* the loop raised RedisConnectionError for the last of them, having slept
\* and reconnected twice.
C15_Witness ==
    /\ retry.pc = "raised"
    /\ retry.outcomes = <<Raise("ConnectionError"), Raise("TimeoutError"),
                          Raise("ConnectionError")>>
    /\ retry.result.cause = "ConnectionError"
    /\ Len(retry.slept) = 2 /\ retry.reconnects = 2

\* redis.exceptions classes for errors the server answers with: a failed
\* authentication, a malformed command.
ServerErrors == {"AuthenticationError", "ResponseError"}

\* C16: a non-retryable server error raised by func ends the call at once:
\* RedisConnectionError is raised, func is not invoked again, and this
\* invocation is followed by no sleep and no reconnect.
C16_ServerErrorNotRetried ==
    \A k \in 1 .. Len(retry.outcomes) :
        (retry.outcomes[k].status = "raise" /\ retry.outcomes[k].exc \in ServerErrors) =>
            /\ k = Len(retry.outcomes)
            /\ Len(retry.slept) = k - 1
            /\ retry.reconnects = k - 1
            /\ retry.pc = "raised"
            /\ retry.result.exc = "RedisConnectionError"

\* The typed failure that matches a script's failure tag, per operation.
TypedFailure(op, tag) ==
    CASE op = "add_item" /\ tag \in {"MAX_QUANTITY_EXCEEDED", "MAX_ITEMS_EXCEEDED"} ->
           "LimitExceededError"
      [] op = "update_quantity" /\ tag = "PRODUCT_NOT_FOUND" -> "ProductNotFoundError"
      [] op = "update_quantity" /\ tag = "MAX_QUANTITY_EXCEEDED" -> "LimitExceededError"
      [] OTHER -> "ValidationError"

\* C17: when the add or the update script answers with a policy failure tag
\* and the reply arrives, the call raises the typed failure that matches the
\* tag, never RedisConnectionError.
C17_PolicyFailureIsTyped ==
    [][\A i \in Clients :
          (/\ pc[i] \in {"add_eval", "upd_eval"} /\ Ran(i) /\ faults' = faults
           /\ "err" \in DOMAIN NewRet(i)
           /\ NewRet(i).err \in {"MAX_QUANTITY_EXCEEDED", "MAX_ITEMS_EXCEEDED",
                                 "PRODUCT_NOT_FOUND"}) =>
              /\ pc'[i] = "done"
              /\ res'[i] = Raise(TypedFailure(call[i].op, NewRet(i).err))]_vars

\* Handler i's call ends in this step with ValidationError, no command having
\* gone to the cache.
Rejected(i) ==
    /\ pc'[i] = "done"
    /\ res'[i] = Raise("ValidationError")
    /\ UNCHANGED <<store, ttl, exec, attempt, faults>>

\* C18: add_item with quantity <= 0, update_quantity with quantity < 0 and
\* merge_carts with a conflict_resolution other than 'sum' and
\* 'last-write-wins' raise ValidationError in the step that starts them, with
\* no cache command sent and no cart state changed.
C18_InvalidInputRejected ==
    [][\A i \in Clients :
          (pc[i] = "idle" /\ pc'[i] # "idle") =>
            /\ \A c \in Carts, p \in Products, o \in Offers :
                  \A q \in {x \in AddQuantities : x <= 0} :
                      add_item(i, c, p, q, o) => Rejected(i)
            /\ \A c \in Carts, p \in Products :
                  \A q \in {x \in UpdateQuantities : x < 0} :
                      update_quantity(i, c, p, q) => Rejected(i)
            /\ \A src \in Carts, tgt \in Carts :
                  \A r \in Resolutions \ {"sum", "last-write-wins"} :
                      merge_carts(i, src, tgt, r) => Rejected(i)]_vars

\* Both handlers were turned down, one an add_item and one a merge_carts, and
\* the cache is as it started with no script run.
C18_Witness ==
    \E i, j \in Clients :
        /\ pc[i] = "done" /\ call[i] = [op |-> "add_item"]
        /\ res[i] = Raise("ValidationError")
        /\ pc[j] = "done" /\ call[j] = [op |-> "merge_carts"]
        /\ res[j] = Raise("ValidationError")
        /\ store = store0 /\ exec = [k \in Clients |-> NoExec]
        /\ store0["g"] # EmptyHash

\* A payload that decodes into a valid item: JSON with an integer quantity >= 0
\* and a decimal price_snapshot.
WellFormed(payload) ==
    /\ "quantity" \in DOMAIN payload /\ payload.quantity >= 0
    /\ "price_snapshot" \in DOMAIN payload

\* C19: get_cart never raises for a corrupt entry: once its hgetall has
\* answered it returns a response holding the well-formed entries, all of
\* them and no others.
C19_CorruptEntriesSkipped ==
    [][\A i \in Clients :
          (pc[i] = "get_hgetall" /\ pc'[i] = "done") =>
              /\ res'[i].status = "return"
              /\ DOMAIN res'[i].value.items =
                    {p \in DOMAIN store[call[i].cart_key] :
                        WellFormed(store[call[i].cart_key][p])}]_vars

\* The quantity and the price of the line a response has for product p, 0
\* when it has none.
LineQuantity(items, p) == IF p \in DOMAIN items THEN items[p].quantity ELSE 0

LinePrice(items, p) ==
    IF p \in DOMAIN items THEN items[p].quantity * items[p].price_snapshot ELSE 0

\* C20: a response get_cart returns has total_items equal to the sum of its
\* items' quantities and total_price equal to the exact sum of quantity times
\* price_snapshot over its items.
C20_TotalsAreExactSums ==
    [][\A i \in Clients :
          (pc[i] = "get_hgetall" /\ pc'[i] = "done" /\ res'[i].status = "return") =>
              /\ res'[i].value.total_items =
                    LineQuantity(res'[i].value.items, "A")
                      + LineQuantity(res'[i].value.items, "B")
                      + LineQuantity(res'[i].value.items, "C")
              /\ res'[i].value.total_price =
                    LinePrice(res'[i].value.items, "A")
                      + LinePrice(res'[i].value.items, "B")
                      + LinePrice(res'[i].value.items, "C")]_vars

\* get_cart returned the cart {A: 2 x 19.99, B: 1 x 5.00} with total_items 3
\* and total_price 44.98.
C20_Witness ==
    \E i \in Clients :
        /\ pc[i] = "done" /\ call[i].op = "get_cart" /\ res[i].status = "return"
        /\ DOMAIN res[i].value.items = {"A", "B"}
        /\ res[i].value.items["A"].quantity = 2
        /\ res[i].value.items["A"].price_snapshot = 1999
        /\ res[i].value.items["B"].quantity = 1
        /\ res[i].value.items["B"].price_snapshot = 500
        /\ res[i].value.total_items = 3
        /\ res[i].value.total_price = 4498

\* C21: an add_item that returns success, made while no other request is in
\* flight and whose script ran once, returns the quantity stored before the
\* call (0 when the product was absent) plus the delta, and is_new = TRUE
\* exactly when the product was not in the cart before the call.
C21_AddReturnsQuantityAndIsNew ==
    \A i \in Clients :
        (/\ pc[i] = "done" /\ call[i].op = "add_item" /\ res[i].status = "return"
         /\ Alone(i) /\ Len(exec[i]) = 1) =>
            LET c == call[i].cart_key
                p == call[i].product_id
            IN  /\ res[i].value.quantity = Quantity(store0, c, p) + call[i].quantity
                /\ res[i].value.is_new = (p \notin DOMAIN store0[c])

\* The add script succeeded in this step on a product the cart already held.
AddRanOnHeld(i) ==
    /\ pc[i] = "add_eval" /\ Ran(i) /\ IsOk(NewRet(i))
    /\ HasField(DB, call[i].cart_key, call[i].product_id)

\* C22: a successful add of a product the cart already holds leaves the
\* price_snapshot stored for it as it was.
C22_FirstPriceKept ==
    [][\A i \in Clients :
          AddRanOnHeld(i) =>
              store'[call[i].cart_key][call[i].product_id].price_snapshot =
                  store[call[i].cart_key][call[i].product_id].price_snapshot]_vars

\* C23: a successful add of a product the cart already holds stores the
\* call's price_snapshot and variant in place of the stored ones, with the
\* stored quantity plus the delta.
C23_IncomingPriceStored ==
    [][\A i \in Clients :
          AddRanOnHeld(i) =>
              LET c == call[i].cart_key
                  p == call[i].product_id
              IN  store'[c][p] =
                      cjson_encode(store[c][p].quantity + call[i].quantity,
                                   call[i].price_snapshot, call[i].variant)]_vars

\* An add accumulated onto a product whose stored price_snapshot and variant
\* both differed from the call's, and the call's are now stored.
C23_Witness ==
    \E i \in Clients :
        /\ pc[i] = "done" /\ call[i].op = "add_item" /\ res[i].status = "return"
        /\ Alone(i) /\ Len(exec[i]) = 1 /\ IsOk(exec[i][1])
        /\ LET c == call[i].cart_key
               p == call[i].product_id
           IN  /\ p \in DOMAIN store0[c]
               /\ store0[c][p].price_snapshot # call[i].price_snapshot
               /\ store0[c][p].variant # call[i].variant
               /\ store[c][p].price_snapshot = call[i].price_snapshot
               /\ store[c][p].variant = call[i].variant
               /\ store[c][p].quantity = store0[c][p].quantity + call[i].quantity

\* C24: when the reply of the update or the merge script reaches the handler
\* as a value that is neither a success payload nor a failure tag, the call
\* raises an error that is none of the validation and policy failures; the
\* value is not returned.
C24_UndecodableResultRaises ==
    [][\A i \in Clients :
          (/\ pc[i] \in {"upd_eval", "merge_eval"} /\ Ran(i) /\ faults' = faults
           /\ LuaReply(NewRet(i)).kind = "list") =>
              /\ pc'[i] = "done"
              /\ res'[i].status = "raise"
              /\ res'[i].exc \notin {"ValidationError", "LimitExceededError",
                                     "ProductNotFoundError"}]_vars

\* An add of q units of p to cart c would break both limits: the cart is full,
\* p is not in it, and q alone is above the per-item maximum.
BothLimitsViolated(c, p, q) ==
    /\ p \notin DOMAIN store[c]
    /\ Cardinality(DOMAIN store[c]) >= MAX_ITEMS_PER_CART
    /\ q > MAX_QUANTITY_PER_ITEM

\* C25: an add script that answers MAX_QUANTITY_EXCEEDED or MAX_ITEMS_EXCEEDED
\* leaves every cart's entries and expiry as they were, and run on a cart
\* where both limits are violated it answers MAX_QUANTITY_EXCEEDED and changes
\* nothing.
C25_FailedAddChangesNothing ==
    /\ [][\A i \in Clients :
            (/\ pc[i] = "add_eval" /\ Ran(i)
             /\ \/ IsErr(NewRet(i), "MAX_QUANTITY_EXCEEDED")
                \/ IsErr(NewRet(i), "MAX_ITEMS_EXCEEDED")) =>
                store' = store /\ ttl' = ttl]_vars
    /\ [](\A c \in Carts, p \in Products, q \in 1 .. MAX_QUANTITY_PER_ITEM + 1, o \in Offers,
            g \in BOOLEAN :
            BothLimitsViolated(c, p, q) =>
                LET r == ADD_ITEM_SCRIPT(DB, c, p, q, o.price, OrEmpty(o.variant),
                                         MAX_ITEMS_PER_CART, MAX_QUANTITY_PER_ITEM,
                                         get_ttl(g))
                IN  IsErr(r.ret, "MAX_QUANTITY_EXCEEDED") /\ r.db = DB)

\* An add was refused with MAX_ITEMS_EXCEEDED on a full cart that is as it was
\* before, and an add of more than the per-item maximum of the same product
\* would break both limits there.
C25_Witness ==
    \E i \in Clients :
        /\ pc[i] = "done" /\ call[i].op = "add_item" /\ Alone(i)
        /\ Len(exec[i]) = 1 /\ IsErr(exec[i][1], "MAX_ITEMS_EXCEEDED")
        /\ store = store0
        /\ ttl[call[i].cart_key] = GUEST_CART_TTL_SECONDS
        /\ BothLimitsViolated(call[i].cart_key, call[i].product_id,
                              MAX_QUANTITY_PER_ITEM + 1)

\* C26: update_quantity of a product the cart does not hold, with any
\* quantity >= 0, is not refused before the script runs, and when the script
\* answers PRODUCT_NOT_FOUND and the reply arrives the call raises
\* ProductNotFoundError with every cart unchanged.
C26_AbsentProductNotFound ==
    [][\A i \in Clients :
          /\ \A c \in Carts, p \in Products, q \in 0 .. MAX_QUANTITY_PER_ITEM + 1 :
                (~HasField(DB, c, p) /\ update_quantity(i, c, p, q)) =>
                    pc'[i] = "upd_eval"
          /\ (/\ pc[i] = "upd_eval" /\ Ran(i) /\ faults' = faults
              /\ ~HasField(DB, call[i].cart_key, call[i].product_id)) =>
                /\ IsErr(NewRet(i), "PRODUCT_NOT_FOUND")
                /\ res'[i] = Raise("ProductNotFoundError")
                /\ store' = store /\ ttl' = ttl]_vars

\* C27: an update script that succeeds with 0 < quantity <= max stores the
\* product with exactly the requested quantity and the price_snapshot and
\* variant it had, and leaves every other product and every other cart as
\* they were.
C27_UpdateReplacesQuantity ==
    [][\A i \in Clients :
          (/\ pc[i] = "upd_eval" /\ Ran(i) /\ IsOk(NewRet(i))
           /\ call[i].quantity > 0) =>
              LET c == call[i].cart_key
                  p == call[i].product_id
              IN  /\ call[i].quantity <= MAX_QUANTITY_PER_ITEM
                  /\ DOMAIN store'[c] = DOMAIN store[c]
                  /\ store'[c][p].quantity = call[i].quantity
                  /\ store'[c][p].price_snapshot = store[c][p].price_snapshot
                  /\ store'[c][p].variant = store[c][p].variant
                  /\ \A o \in DOMAIN store[c] \ {p} : store'[c][o] = store[c][o]
                  /\ \A d \in Carts \ {c} : store'[d] = store[d]]_vars

\* An update replaced quantity 2 by 1 in a cart of two products: 1 is stored,
\* not 3, with the price and variant of before, and the other product is as
\* it was.
C27_Witness ==
    \E i \in Clients :
        /\ pc[i] = "done" /\ call[i].op = "update_quantity" /\ Alone(i)
        /\ Len(exec[i]) = 1 /\ IsOk(exec[i][1])
        /\ LET c == call[i].cart_key
               p == call[i].product_id
           IN  /\ call[i].quantity = 1
               /\ store0[c][p].quantity = 2
               /\ store[c][p] = [store0[c][p] EXCEPT !.quantity = 1]
               /\ \E o \in DOMAIN store[c] \ {p} : store[c][o] = store0[c][o]

\* The TTL the policy gives the cart handler i writes to.
PolicyTtl(i) == IF IsGuest(i) THEN GUEST_CART_TTL_SECONDS ELSE CART_TTL_SECONDS

\* C28: a successful add script and a successful non-removing update script
\* leave the cart with the guest TTL when the caller is a guest and the user
\* TTL otherwise, and a merge script that finds entries in its source leaves
\* its target, which exists whenever it is not the source, with the user TTL.
C28_MutationResetsTtl ==
    [][\A i \in Clients :
          /\ (/\ pc[i] \in {"add_eval", "upd_eval"} /\ Ran(i) /\ IsOk(NewRet(i))
              /\ call[i].quantity > 0) =>
                ttl'[call[i].cart_key] = PolicyTtl(i)
          /\ (/\ pc[i] = "merge_eval" /\ Ran(i)
              /\ store[call[i].source_key] # EmptyHash) =>
                /\ call[i].source_key # call[i].target_key =>
                      EXISTS(DB', call[i].target_key) = 1
                /\ EXISTS(DB', call[i].target_key) = 1 =>
                      ttl'[call[i].target_key] = CART_TTL_SECONDS]_vars

\* A guest's add to a cart that had the user TTL left it with the guest TTL,
\* and a merge into a cart that had the guest TTL left it with the user TTL.
C28_Witness ==
    \E i, j \in Clients :
        /\ pc[i] = "done" /\ call[i].op = "add_item" /\ IsGuest(i)
        /\ Len(exec[i]) = 1 /\ IsOk(exec[i][1])
        /\ store0[call[i].cart_key] # EmptyHash
        /\ call[i].cart_key # "g"
        /\ ttl[call[i].cart_key] = GUEST_CART_TTL_SECONDS
        /\ pc[j] = "done" /\ IsMerge(j)
        /\ Len(exec[j]) = 1 /\ exec[j][1].merged > 0
        /\ call[j].target_key = "g" /\ store0["g"] # EmptyHash
        /\ ttl["g"] = CART_TTL_SECONDS

\* What the call did k-th was to invoke func.
IsCall(k) == retry.log[k] = "call"

\* C29: in _retry_with_backoff the first thing done is an invocation of func,
\* every later invocation comes right after one reconnect attempt, failed or
\* not, which comes right after one sleep, which comes right after the failed
\* invocation before; a reconnect attempt is always followed by the next
\* invocation; and a call that raised ended on its last invocation, with one
\* sleep and one reconnect fewer than invocations.
C29_SleepThenReconnectBeforeRetry ==
    /\ [](\A k \in 1 .. Len(retry.log) :
            /\ k = 1 => IsCall(k)
            /\ (k > 1 /\ IsCall(k)) =>
                  /\ k >= 4
                  /\ retry.log[k - 1] \in {"connect", "connect_failed"}
                  /\ retry.log[k - 2] = "sleep"
                  /\ IsCall(k - 3)
            /\ retry.log[k] = "sleep" => IsCall(k - 1)
            /\ retry.log[k] \in {"connect", "connect_failed"} =>
                  retry.log[k - 1] = "sleep")
    /\ [][retry.pc = "reconnect" => retry'.pc = "try"]_vars
    /\ [][retry.pc = "try" => retry'.log = Append(retry.log, "call")]_vars
    /\ [](retry.pc = "raised" =>
            /\ IsCall(Len(retry.log))
            /\ Len(retry.slept) = Len(retry.outcomes) - 1
            /\ retry.reconnects = Len(retry.outcomes) - 1)

\* A call of three invocations whose first reconnect failed and second
\* succeeded, and which raised after the third invocation failed.
C29_Witness ==
    /\ retry.pc = "raised"
    /\ retry.log = <<"call", "sleep", "connect_failed", "call", "sleep", "connect",
                     "call">>
    /\ \A k \in 1 .. 3 : FailedTransient(k)

\* 2^n
RECURSIVE Pow2(_)
Pow2(n) == IF n = 0 THEN 1 ELSE 2 * Pow2(n - 1)

\* C30: whatever max_retries, initial_backoff and max_backoff the call was
\* given, every delay it slept is at most max_backoff, and the base backoff
\* after n sleeps is initial_backoff doubled n times, capped at max_backoff.
C30_DelayWithinMaxBackoff ==
    retry.pc # "idle" =>
        /\ \A k \in 1 .. Len(retry.slept) : retry.slept[k] <= retry.args.max_backoff
        /\ retry.backoff = Min(retry.args.initial_backoff * Pow2(Len(retry.slept)),
                               retry.args.max_backoff)

\* The exception classes of app/exceptions.py.
TypedFailures ==
    {"ValidationError", "LimitExceededError", "ProductNotFoundError",
     "CartNotFoundError", "RedisConnectionError"}

Mutations == {"add_item", "update_quantity", "merge_carts"}

RemoveStep(i) ==
    /\ call[i].op = "remove_item"
    /\ pc[i] \in {"rem_hdel", "rem_hlen", "rem_expire", "rem_delete"}
    /\ (pc'[i] # pc[i] \/ attempt'[i] # attempt[i])

\* C32: of the steps of remove_item(cart, p), the hdel takes at most the
\* entry of p out of the cart and no other step takes any entry out of any
\* cart, whatever add_item calls run in between.
C32_RemoveTakesOnlyItsProduct ==
    [][\A i \in Clients :
          RemoveStep(i) =>
              \A c \in Carts : \A o \in DOMAIN store[c] :
                  (o \in DOMAIN store'[c] /\ store'[c][o] = store[c][o])
                    \/ (/\ pc[i] = "rem_hdel"
                        /\ c = call[i].cart_key /\ o = call[i].product_id)]_vars

\* C33: a merge script run leaves in the target every product the target
\* held, whatever the source and target keys, the same key twice included.
C33_MergeKeepsTargetProducts ==
    [][\A i \in Clients :
          (pc[i] = "merge_eval" /\ Ran(i)) =>
              DOMAIN store[call[i].target_key] \subseteq
                  DOMAIN store'[call[i].target_key]]_vars

\* The quantities cart c holds in st, added up.
CartQuantity(st, c) == Quantity(st, c, "A") + Quantity(st, c, "B") + Quantity(st, c, "C")

\* C34: a 'sum' merge script run between two different carts leaves in the
\* target the quantity the target held plus the quantity the source held, on
\* the products of either cart.
C34_SumMergeConservesQuantity ==
    [][\A i \in Clients :
          MergeRan(i, "sum") =>
              LET s == call[i].source_key
                  t == call[i].target_key
              IN  /\ CartQuantity(store', t) = CartQuantity(store, t) + CartQuantity(store, s)
                  /\ DOMAIN store'[t] = DOMAIN store[t] \cup DOMAIN store[s]]_vars

\* A 'sum' merge of {A: 1} into {A: 2, B: 2} left {A, B} holding 5.
C34_Witness ==
    \E i \in Clients :
        /\ pc[i] = "done" /\ IsMerge(i) /\ Alone(i)
        /\ call[i].conflict_resolution = "sum"
        /\ call[i].source_key # call[i].target_key
        /\ Len(exec[i]) = 1 /\ exec[i][1].merged = 1 /\ exec[i][1].conflicts = 1
        /\ CartQuantity(store0, call[i].source_key) = 1
        /\ CartQuantity(store0, call[i].target_key) = 4
        /\ DOMAIN store0[call[i].target_key] = {"A", "B"}
        /\ DOMAIN store[call[i].target_key] = {"A", "B"}
        /\ CartQuantity(store, call[i].target_key) = 5

\* C35: when get_cart returns a response, the response holds at least one
\* item, whatever clear_cart, remove_item, update_quantity or merge_carts ran
\* between its two reads.
C35_GetCartNeverEmpty ==
    [][\A i \in Clients :
          (/\ pc[i] = "get_hgetall" /\ pc'[i] = "done"
           /\ res'[i].status = "return") =>
              DOMAIN res'[i].value.items # {}]_vars

\* Handler i's start_checkout of cart c returned an order.
Ordered(i, c) ==
    /\ pc[i] = "done" /\ call[i].op = "start_checkout" /\ call[i].cart_key = c
    /\ res[i].status = "return"

\* C36: of two start_checkout calls on one cart at most one returns an order.
C36_CheckedOutAtMostOnce ==
    \A c \in Carts : \A i, j \in Clients :
        (Ordered(i, c) /\ Ordered(j, c)) => i = j

\* C37: the clear_cart of a checkout removes from the cache only entries that
\* are in the order the checkout returns, as they are in the order.
C37_CheckoutDestroysOnlyOrdered ==
    [][\A i \in Clients :
          (pc[i] = "co_delete" /\ pc'[i] = "done" /\ res'[i].status = "return") =>
              \A p \in DOMAIN store[call[i].cart_key] \ DOMAIN store'[call[i].cart_key] :
                  /\ p \in DOMAIN res'[i].value.items
                  /\ res'[i].value.items[p].quantity =
                        store[call[i].cart_key][p].quantity]_vars

====
